---- MODULE Spec2Model ----
(***************************************************************************)
(* A model of the astrodata package: the tag resolution of AstroData       *)
(* (core.py), the FITS reader and writer (fits.py) and the dataset         *)
(* operations of AstroData (core.py).                                      *)
(***************************************************************************)
EXTENDS Integers, Sequences, FiniteSets, TLC

(***************************************************************************)
(* Bounds of the model.                                                    *)
(***************************************************************************)
\* the number of tag methods a class declares
MaxRules == 2
\* the total number of tag strings all the TagSets of a class mention
MaxTagRefs == 4
\* the number of HDUs a file holds after its primary HDU
MaxHdus == 3
\* the number of operations applied to a dataset between read and write
MaxOps == 3

\* the tag strings the tag methods use
TagNames == {"A", "B"}
\* the tag methods of a class, named by the alphabetical rank of their names
RuleNames == 1..MaxRules
\* the attributes of a TagSet
TagFields == {"add", "remove", "blocked_by", "blocks", "if_present"}
\* what the body of a tag method does: it returns a TagSet, it returns None,
\* or a keyword it looks up is missing and it raises KeyError
Outcomes == {"TagSet", "None", "KeyError"}

VARIABLES
    \* SpecTags: the tag methods of the class in the order of their
    \* declaration (names), and for each one the outcome of its body and
    \* the TagSet it returns
    decl,
    members,
    \* SpecRead, Spec: the HDUs of the file that is read (the primary HDU
    \* first), the dataset read from it, the HDUs written from the dataset
    \* and the dataset read back from those
    file,
    ad1,
    hdul,
    ad2,
    \* the step the program is at and the exception of the last operation
    pc,
    raised,
    \* Spec: for every unit of ad1, the EXTVER it was read with (NoVer for a
    \* unit that was not read), and the number of operations applied so far
    origin,
    nops,
    \* SpecUnit: the NDAstroData of a single slice (its data, mask,
    \* uncertainty and wcs) and the last call made on the slice
    nd1,
    call,
    \* SpecView: the AstroData object at hand (the dataset ad1 itself or a
    \* view of it: its _indices and is_single) and the indexes that led to it
    view,
    path,
    \* SpecArith: the objects alive, by identity (the position in the
    \* sequence)
    heap

tagVars == <<decl, members>>
opVars == <<origin, nops>>
unitVars == <<nd1, call>>
viewVars == <<view, path>>
objVars == <<heap>>
dsVars == <<file, ad1, hdul, ad2, pc, raised, origin, nops, nd1, call, view, path,
           heap>>
vars == <<decl, members, file, ad1, hdul, ad2, pc, raised, origin, nops, nd1, call,
          view, path, heap>>

(***************************************************************************)
(* utils.py: TagSet                                                        *)
(***************************************************************************)
\* TagSet(): every attribute defaults to the empty set
TagSet ==
    [add |-> {}, remove |-> {}, blocked_by |-> {}, blocks |-> {},
     if_present |-> {}]

\* the body of a tag method with outcome o, returning ts when it returns
fn(o, ts) ==
    [add |-> ts.add, remove |-> ts.remove, blocked_by |-> ts.blocked_by,
     blocks |-> ts.blocks, if_present |-> ts.if_present, outcome |-> o]

\* a variant that lets the KeyError of the body through
astro_data_tag_reraise(f) ==
    IF f.outcome = "KeyError" THEN [raised |-> "KeyError", ret |-> TagSet]
    ELSE IF f.outcome = "None" THEN [raised |-> "none", ret |-> TagSet]
    ELSE [raised |-> "none", ret |-> [a \in TagFields |-> f[a]]]

\* astro_data_tag: the wrapper of a tag method.  A TagSet is returned as a
\* TagSet of sets; None and KeyError give the empty TagSet
astro_data_tag(f) ==
    IF f.outcome = "KeyError" THEN [raised |-> "none", ret |-> TagSet]
    ELSE IF f.outcome = "None" THEN [raised |-> "none", ret |-> TagSet]
    ELSE [raised |-> "none", ret |-> [a \in TagFields |-> f[a]]]

(***************************************************************************)
(* Python's sorted(): a stable sort.  The list is given as a sequence of   *)
(* <<key, element>> pairs; elements with equal keys keep their order.      *)
(***************************************************************************)
InsertStable(done, p) ==
    LET pos == Cardinality({i \in 1..Len(done) : done[i][1] <= p[1]})
    IN  SubSeq(done, 1, pos) \o <<p>> \o SubSeq(done, pos + 1, Len(done))

RECURSIVE SortPairs(_)
SortPairs(ps) ==
    IF ps = <<>> THEN <<>>
    ELSE InsertStable(SortPairs(SubSeq(ps, 1, Len(ps) - 1)), ps[Len(ps)])

\* sorted(s, key): k[i] is the key of s[i]
sorted(s, k) ==
    LET r == SortPairs([i \in 1..Len(s) |-> <<k[i], s[i]>>])
    IN  [i \in 1..Len(s) |-> r[i][2]]

(***************************************************************************)
(* core.py: AstroData._process_tags                                        *)
(***************************************************************************)
\* a variant that returns the members in the order of their declaration
getmembers_declared(order) ==
    order

\* inspect.getmembers(self.__class__, ...): the members sorted by name,
\* whatever the order of their declaration
getmembers(order) ==
    sorted(order, order)

\* for _, method in members: ts = method(self); kept when it adds, removes
\* or blocks something
results(order, defs) ==
    LET ms == getmembers(order)
        ts == [i \in 1..Len(ms) |-> astro_data_tag(defs[ms[i]]).ret]
    IN  SelectSeq(ts, LAMBDA x : x.add # {} \/ x.remove # {} \/ x.blocks # {})

\* a variant that counts a tag that is both removed and blocked once
KeySubstractions_union(x) ==
    0 - Cardinality(x.remove \cup x.blocks)

\* key=lambda x: len(x.remove) + len(x.blocks), reverse=True
KeySubstractions(x) ==
    0 - (Cardinality(x.remove) + Cardinality(x.blocks))

\* the three successive sorts
sorted_results(order, defs) ==
    LET r0 == results(order, defs)
        r1 == sorted(r0, [i \in 1..Len(r0) |-> KeySubstractions(r0[i])])
        r2 == sorted(r1, [i \in 1..Len(r1) |-> Cardinality(r1[i].blocked_by)])
    IN  sorted(r2, [i \in 1..Len(r2) |-> Cardinality(r2[i].if_present)])

\* one pass of the loop body over TagSet x, st = [tags, removals, blocked]
ApplyTagSet(st, x) ==
    IF x.if_present # {}
       /\ Cardinality(st.tags \cap x.if_present) # Cardinality(x.if_present)
    THEN st
    ELSE IF Cardinality(st.tags \cap x.blocked_by)
            + Cardinality(x.add \cap st.blocked) = 0
         THEN LET rem == st.removals \cup x.remove
              IN  [tags |-> st.tags \cup (x.add \ rem),
                   removals |-> rem,
                   blocked |-> st.blocked \cup x.blocks]
         ELSE st

RECURSIVE Accumulate(_, _)
Accumulate(st, rs) ==
    IF rs = <<>> THEN st
    ELSE Accumulate(ApplyTagSet(st, Head(rs)), Tail(rs))

\* the tag set of a class with the given declarations
_process_tags(order, defs) ==
    Accumulate([tags |-> {}, removals |-> {}, blocked |-> {}],
               sorted_results(order, defs)).tags

\* the exception a call of method(self) lets out of _process_tags: that of
\* the first member that raises, "none" when no member does
raises(order, defs) ==
    LET ms == getmembers(order)
        bad == {i \in 1..Len(ms) : astro_data_tag(defs[ms[i]]).raised # "none"}
    IN  IF bad = {} THEN "none"
        ELSE astro_data_tag(defs[ms[CHOOSE i \in bad : \A j \in bad : i <= j]]).raised

\* the tags property
tags == _process_tags(decl, members)

\* the state of the loop after the first k TagSets of the sorted results
LoopState(rs, k) ==
    Accumulate([tags |-> {}, removals |-> {}, blocked |-> {}], SubSeq(rs, 1, k))

\* the loop applies the k-th TagSet of the sorted results: it is not skipped
\* for a tag of if_present that is missing, and it is allowed
applied(rs, k) ==
    LET st == LoopState(rs, k - 1)
        x  == rs[k]
    IN  /\ ~(/\ x.if_present # {}
             /\ Cardinality(st.tags \cap x.if_present) # Cardinality(x.if_present))
        /\ Cardinality(st.tags \cap x.blocked_by)
             + Cardinality(x.add \cap st.blocked) = 0

(***************************************************************************)
(* SpecTags: classes are written one tag method and one tag at a time.     *)
(***************************************************************************)
TagRefs ==
    LET RECURSIVE Sum(_)
        Sum(S) == IF S = {} THEN 0
                  ELSE LET n == CHOOSE n \in S : TRUE
                       IN  Cardinality(members[n].add) + Cardinality(members[n].remove)
                           + Cardinality(members[n].blocked_by)
                           + Cardinality(members[n].blocks)
                           + Cardinality(members[n].if_present)
                           + Sum(S \ {n})
    IN  Sum(DOMAIN members)

InitTags ==
    /\ decl = <<>>
    /\ members = <<>>
    /\ file = <<>> /\ ad1 = <<>> /\ hdul = <<>> /\ ad2 = <<>>
    /\ pc = "class" /\ raised = "none"
    /\ origin = <<>> /\ nops = 0
    /\ nd1 = <<>> /\ call = <<>>
    /\ view = <<>> /\ path = <<>> /\ heap = <<>>

\* a new method decorated with astro_data_tag, whose body returns TagSet(),
\* returns None or raises KeyError
DeclareTagMethod(n, o) ==
    /\ n \notin DOMAIN members
    /\ decl' = Append(decl, n)
    /\ members' = [m \in DOMAIN members \cup {n} |->
                     IF m = n THEN fn(o, TagSet) ELSE members[m]]
    /\ UNCHANGED dsVars

\* the method n returns one more tag in one attribute of its TagSet
ExtendTagSet(n, f, t) ==
    /\ n \in DOMAIN members
    /\ members[n].outcome = "TagSet"
    /\ TagRefs < MaxTagRefs
    /\ t \notin members[n][f]
    /\ members' = [members EXCEPT ![n][f] = @ \cup {t}]
    /\ UNCHANGED <<decl, dsVars>>

NextTags ==
    \/ \E n \in RuleNames, o \in Outcomes : DeclareTagMethod(n, o)
    \/ \E n \in RuleNames, f \in TagFields, t \in TagNames : ExtendTagSet(n, f, t)

SpecTags == InitTags /\ [][NextTags]_vars

(***************************************************************************)
(* fits.py: the records of a FITS file (HDUs).                             *)
(*   kind    "primary", "image" (ImageHDU) or "table" (BinTableHDU,        *)
(*           TableHDU)                                                     *)
(*   name    header["EXTNAME"], "" when the keyword is absent              *)
(*   ver     header["EXTVER"], NoVer (-1) when the keyword is absent        *)
(*   pay     the payload (an array or a table), NoData for none            *)
(*   gwcs    the transform a WCS table serializes ("none" for the others)  *)
(*   fitswcs whether the header holds FITS WCS keywords                    *)
(***************************************************************************)
NoVer == 0 - 1
NoData == 0
DEFAULT_EXTENSION == "SCI"

PrimaryHDU(pay) ==
    [kind |-> "primary", name |-> "", ver |-> NoVer, pay |-> pay,
     gwcs |-> "none", fitswcs |-> FALSE]
ImageHDU(name, ver, pay, fitswcs) ==
    [kind |-> "image", name |-> name, ver |-> ver, pay |-> pay,
     gwcs |-> "none", fitswcs |-> fitswcs]
TableHDU(name, ver, pay, gwcs) ==
    [kind |-> "table", name |-> name, ver |-> ver, pay |-> pay,
     gwcs |-> gwcs, fitswcs |-> FALSE]

\* the names of the model in the order of Python's string comparison
AlphaOrder ==
    <<"DQ", "MDF", "OBJCAT", "OBJMASK", "REFCAT", "SCI", "TABLE1", "TABLE2",
      "TABLE3", "TABLE4", "TABLE5", "VAR", "WCS", "objcat">>
NameRank(n) == CHOOSE i \in DOMAIN AlphaOrder : AlphaOrder[i] = n
\* str.isupper() and str.upper()
isupper(n) == n \notin {"", "objcat"}
upper(n) == IF n = "objcat" THEN "OBJCAT" ELSE n

\* fits_ext_comp_key: the pair <<version, name>>.  SCI sorts first, then
\* "z" + name by name, then the unnamed ("zzzz"); a record without EXTVER
\* sorts after every version (2**32 - 1 in the source, the largest integer
\* of the model checker here).
UnversionedKey == 2147483647
fits_ext_comp_key(ext) ==
    IF ext.kind = "primary" THEN <<0 - 1, 0>>
    ELSE LET name == IF ext.name = "" THEN Len(AlphaOrder) + 1
                     ELSE IF ext.name # DEFAULT_EXTENSION THEN NameRank(ext.name)
                     ELSE 0
             ver == IF ext.ver = NoVer THEN UnversionedKey ELSE ext.ver
         IN  <<ver, name>>

(***************************************************************************)
(* fits.py: _prepare_hdulist                                               *)
(***************************************************************************)
\* first loop: the primary HDU and the HDUs with EXTVER and a name
HasVerAndName(hdu) == hdu.ver # NoVer /\ hdu.name # ""
Recognized(hdulist) ==
    {i \in DOMAIN hdulist : HasVerAndName(hdulist[i]) \/ hdulist[i].kind = "primary"}

MaxOf(S) == IF S = {} THEN 0 ELSE CHOOSE m \in S : \A x \in S : x <= m

\* a variant that counts only the images it gives a version
PrepareMissing_lazy(st, hdu) ==
    IF hdu.kind = "image"
    THEN LET hv == IF hdu.ver = NoVer THEN st.highest_ver + 1 ELSE st.highest_ver
             named == IF hdu.name = "" THEN [hdu EXCEPT !.name = DEFAULT_EXTENSION]
                      ELSE hdu
             versioned == IF hdu.ver = NoVer THEN [named EXCEPT !.ver = hv]
                          ELSE named
         IN  [list |-> Append(st.list, versioned), highest_ver |-> hv]
    ELSE [list |-> Append(st.list, hdu), highest_ver |-> st.highest_ver]

\* second loop: st = [list, highest_ver], hdu is not recognized
PrepareMissing(st, hdu) ==
    IF hdu.kind = "image"
    THEN LET hv == st.highest_ver + 1
             named == IF hdu.name = "" THEN [hdu EXCEPT !.name = DEFAULT_EXTENSION]
                      ELSE hdu
             versioned == IF hdu.ver = NoVer THEN [named EXCEPT !.ver = hv]
                          ELSE named
         IN  [list |-> Append(st.list, versioned), highest_ver |-> hv]
    ELSE [list |-> Append(st.list, hdu), highest_ver |-> st.highest_ver]

RECURSIVE PrepareLoop2(_, _, _)
PrepareLoop2(st, hdulist, i) ==
    IF i > Len(hdulist) THEN st
    ELSE IF i \in Recognized(hdulist) THEN PrepareLoop2(st, hdulist, i + 1)
    ELSE PrepareLoop2(PrepareMissing(st, hdulist[i]), hdulist, i + 1)

\* HDUList(sorted(new_list, key=fits_ext_comp_key))
\* (a stable sort by the name and then a stable sort by the version order
\* the list by the pair)
SortHdus(list) ==
    LET byName == sorted(list, [i \in 1..Len(list) |-> fits_ext_comp_key(list[i])[2]])
    IN  sorted(byName, [i \in 1..Len(list) |-> fits_ext_comp_key(byName[i])[1]])

_prepare_hdulist(hdulist) ==
    IF Len(hdulist) > 1 \/ (Len(hdulist) = 1 /\ hdulist[1].pay = NoData)
    THEN \* MEF file
         LET first == SelectSeq(hdulist,
                         LAMBDA h : HasVerAndName(h) \/ h.kind = "primary")
             hv == MaxOf({hdulist[i].ver : i \in
                           {j \in DOMAIN hdulist : HasVerAndName(hdulist[j])}})
         IN  SortHdus(PrepareLoop2([list |-> first, highest_ver |-> hv],
                                   hdulist, 1).list)
    ELSE \* a single image FITS file
         SortHdus(<<[PrimaryHDU(NoData) EXCEPT !.fitswcs = hdulist[1].fitswcs],
                    ImageHDU(DEFAULT_EXTENSION, 1, hdulist[1].pay,
                             hdulist[1].fitswcs)>>)

(***************************************************************************)
(* core.py: the objects of a dataset.                                      *)
(*   a unit (NDAstroData): data, mask, uncertainty (NoData for None), wcs, *)
(*   meta["header"], meta["parent_ad"] and meta["other"], an OrderedDict   *)
(*   kept as the sequence of its entries [name, kind, pay, ver] in         *)
(*   insertion order; kind is "array" (ndarray) or "Table"                 *)
(*   a dataset (AstroData): id(ad), phu, _all_nddatas and _tables, a dict  *)
(*   kept as the set of its entries                                        *)
(*   the wcs of a unit is "none", or the transform as the provider sees    *)
(*   it: "fits" (FITS keywords hold it), "approx" (FITS keywords hold an   *)
(*   approximation of it), "fail" (it cannot be written as keywords) or    *)
(*   "unserial" (neither as keywords nor as an ASDF tree)                  *)
(***************************************************************************)
NoId == 0
Header(hdu) == [EXTNAME |-> hdu.name, EXTVER |-> hdu.ver, fitswcs |-> hdu.fitswcs]

NDAstroData(data, mask, uncertainty, header) ==
    [data |-> data, mask |-> mask, uncertainty |-> uncertainty, wcs |-> "none",
     header |-> header, parent_ad |-> NoId, other |-> <<>>]

AstroData(id) ==
    [id |-> id, phu |-> [fitswcs |-> FALSE], nddata |-> <<>>, tables |-> {}]

\* the outcome of an operation: the dataset it leaves and what it raised
Ok(ad) == [err |-> "none", ad |-> ad]
Raise(e, ad) == [err |-> e, ad |-> ad]

Keys(d) == {d[i].name : i \in DOMAIN d}
\* d[e.name] = e on an OrderedDict: a new key goes last, an old one stays put
DictSet(d, e) ==
    IF e.name \in Keys(d)
    THEN [i \in DOMAIN d |-> IF d[i].name = e.name THEN e ELSE d[i]]
    ELSE Append(d, e)
\* the same on a dict whose order is never used
TablesSet(t, e) == {x \in t : x.name # e.name} \cup {e}
TableNames(t) == {x.name : x \in t}

\* AstroData._process_pixel_plane for an ImageHDU ("" is the absent name)
_process_pixel_plane(pixim, name) ==
    LET nd == NDAstroData(pixim.pay, NoData, NoData, Header(pixim))
    IN  IF nd.header.EXTNAME = ""
        THEN [nd EXCEPT !.header.EXTNAME =
                            IF name # "" THEN name ELSE DEFAULT_EXTENSION]
        ELSE nd

\* AstroData._append_nddata at the top level
_append_nddata(ad, new_nddata) ==
    IF new_nddata.header.EXTNAME = DEFAULT_EXTENSION
    THEN Ok([ad EXCEPT !.nddata = Append(@, new_nddata)])
    ELSE Raise("ValueError", ad)

\* AstroData._append_array: data is [kind |-> "array", pay]; add_to is the
\* position of the unit, 0 for None
_append_array(ad, data, name, add_to) ==
    IF name \in {"DQ", "VAR"} THEN Raise("ValueError", ad)
    ELSE IF add_to = 0
    THEN _append_nddata(ad,
             _process_pixel_plane(
                 ImageHDU(IF name # "" THEN name ELSE DEFAULT_EXTENSION,
                          NoVer, data.pay, FALSE), name))
    ELSE Ok([ad EXCEPT !.nddata[add_to].other =
                 DictSet(@, [name |-> name, kind |-> "array",
                             pay |-> data.pay, ver |-> NoVer])])

\* AstroData._append_imagehdu
_append_imagehdu(ad, hdu, name, add_to) ==
    IF name \in {"DQ", "VAR"} \/ add_to # 0
    THEN _append_array(ad, [kind |-> "array", pay |-> hdu.pay], name, add_to)
    ELSE _append_nddata(ad, _process_pixel_plane(hdu, name))

\* find_next_num of _append_table
TableN == <<"TABLE1", "TABLE2", "TABLE3", "TABLE4", "TABLE5">>
find_next_num(names) ==
    TableN[CHOOSE n \in DOMAIN TableN :
               /\ TableN[n] \notin names
               /\ \A m \in 1..(n - 1) : TableN[m] \in names]

\* the names of the Table entries of the units of ad
ext_tables(ad) ==
    UNION {{ad.nddata[k].other[i].name :
               i \in {j \in DOMAIN ad.nddata[k].other :
                         ad.nddata[k].other[j].kind = "Table"}} :
           k \in DOMAIN ad.nddata}

\* AstroData._append_table: new_table is a table HDU or a Table, both
\* [name, ver, pay] with the header's EXTNAME and EXTVER
_append_table(ad, new_table, name, add_to) ==
    LET hname == IF name # "" THEN name ELSE new_table.name
        tb(n) == [name |-> n, kind |-> "Table", pay |-> new_table.pay,
                  ver |-> new_table.ver]
    IN  IF add_to = 0
        THEN IF hname = ""
             THEN Ok([ad EXCEPT !.tables =
                       TablesSet(@, tb(find_next_num(TableNames(ad.tables)
                                                     \cup ext_tables(ad))))])
             ELSE IF hname \in ext_tables(ad) THEN Raise("ValueError", ad)
             ELSE Ok([ad EXCEPT !.tables = TablesSet(@, tb(hname))])
        ELSE IF hname \in TableNames(ad.tables) THEN Raise("ValueError", ad)
             ELSE Ok([ad EXCEPT !.nddata[add_to].other = DictSet(@, tb(hname))])

\* AstroData._append_raw_nddata: raw_nddata is [kind |-> "nddata", nd]
_append_raw_nddata(ad, raw_nddata, name, add_to) ==
    IF add_to # 0 THEN Raise("TypeError", ad)
    ELSE _append_nddata(ad,
             IF raw_nddata.nd.header.EXTNAME = ""
             THEN [raw_nddata.nd EXCEPT !.header.EXTNAME =
                      IF name # "" THEN name ELSE DEFAULT_EXTENSION]
             ELSE raw_nddata.nd)

\* AstroData._append_astrodata: other is [kind |-> "astrodata", is_single,
\* nd], nd the unit of the single slice; deepcopy keeps the whole meta
_append_astrodata(ad, other, name, add_to) ==
    IF ~other.is_single THEN Raise("ValueError", ad)
    ELSE IF add_to # 0 THEN Raise("ValueError", ad)
    ELSE _append_nddata(ad, other.nd)

\* AstroData._append: the dispatch on the type of ext
_append(ad, ext, name, add_to) ==
    CASE ext.kind = "nddata" -> _append_raw_nddata(ad, ext, name, add_to)
      [] ext.kind \in {"Table", "table"} -> _append_table(ad, ext, name, add_to)
      [] ext.kind = "image" -> _append_imagehdu(ad, ext, name, add_to)
      [] ext.kind = "astrodata" -> _append_astrodata(ad, ext, name, add_to)
      [] OTHER -> _append_array(ad, ext, name, add_to)

\* AstroData.append on a dataset that is not sliced
append(ad, ext, name) ==
    IF ext.kind = "primary" THEN Raise("ValueError", ad)
    ELSE IF ext.kind = "Table" THEN Raise("ValueError", ad)
    ELSE _append(ad, ext,
                 IF name # "" /\ ~isupper(name) THEN upper(name) ELSE name, 0)

\* AstroData.__setattr__ on the dataset (k = 0) or on its single slice ad[k]
\* for a name that is no attribute of the object or of the class
__setattr__(ad, k, attribute, value) ==
    IF isupper(attribute)
    THEN IF attribute = DEFAULT_EXTENSION THEN Raise("AttributeError", ad)
         ELSE IF attribute \in {"DQ", "VAR"} THEN Raise("AttributeError", ad)
         ELSE _append(ad, value, attribute, k)
    ELSE \* object.__setattr__: an attribute of the Python object, which the
         \* dataset does not hold
         Ok(ad)

(***************************************************************************)
(* The coordinate transform provider.                                      *)
(***************************************************************************)
\* asdftablehdu_to_wcs: the transform the table serializes, None ("none")
\* when it cannot be read back
asdftablehdu_to_wcs(hdu) == IF hdu.kind = "table" THEN hdu.gwcs ELSE "none"

\* wcs.fitswcs_to_gwcs: the transform of the FITS keywords of a header
fitswcs_to_gwcs(header) == IF header.fitswcs THEN "fits" ELSE "none"

\* wcs.gwcs_to_fits: "raise" when the transform has no FITS form, else the
\* keywords, flagged APPROXIMATE when they do not hold the whole transform
gwcs_to_fits(wcs) ==
    CASE wcs = "fits" -> "exact"
      [] wcs = "approx" -> "APPROXIMATE"
      [] OTHER -> "raise"

(***************************************************************************)
(* fits.py: read_fits                                                      *)
(***************************************************************************)
skip_names == {DEFAULT_EXTENSION, "REFCAT", "MDF"}

Indices(hdulist) == [j \in 1..Len(hdulist) |-> j]

\* a variant that skips the SCI HDUs only
associated_extensions_sci(hdulist, ver) ==
    SelectSeq(Indices(hdulist),
              LAMBDA j : hdulist[j].ver = ver /\ hdulist[j].name # DEFAULT_EXTENSION)

\* associated_extensions(ver), as positions in hdulist
associated_extensions(hdulist, ver) ==
    SelectSeq(Indices(hdulist),
              LAMBDA j : hdulist[j].ver = ver /\ hdulist[j].name \notin skip_names)

\* for other in parts["other"]: setattr(ad[-1], other.name, other)
RECURSIVE SetOthers(_, _, _, _)
SetOthers(res, hdulist, others, n) ==
    IF n > Len(others) \/ res.err # "none" THEN res
    ELSE LET other == hdulist[others[n]]
         IN  SetOthers(IF other.name = "" THEN res
                       ELSE __setattr__(res.ad, Len(res.ad.nddata), other.name, other),
                       hdulist, others, n + 1)

\* the body of the loop over the SCI HDUs, for the one at position i
ReadUnit(ad, hdulist, i) ==
    LET hdu == hdulist[i]
        assoc == associated_extensions(hdulist, hdu.ver)
        named(n) == SelectSeq(assoc, LAMBDA j : hdulist[j].name = n)
        \* the last HDU of a role is the one that stays in parts
        part(n) == IF named(n) = <<>> THEN 0 ELSE named(n)[Len(named(n))]
        pay(n) == IF part(n) = 0 THEN NoData ELSE hdulist[part(n)].pay
        others == SelectSeq(assoc, LAMBDA j : hdulist[j].name \notin {"DQ", "VAR", "WCS"})
        nd == NDAstroData(hdu.pay, pay("DQ"), pay("VAR"), Header(hdu))
        appended == append(ad, [kind |-> "nddata", nd |-> nd], DEFAULT_EXTENSION)
        last == Len(appended.ad.nddata)
        owned == IF appended.err # "none" THEN appended
                 ELSE Ok([appended.ad EXCEPT !.nddata[last].parent_ad = ad.id])
        withOthers == SetOthers(owned, hdulist, others, 1)
        fromTable == IF part("WCS") = 0 THEN "none"
                     ELSE asdftablehdu_to_wcs(hdulist[part("WCS")])
        fromHeader == IF fitswcs_to_gwcs(Header(hdu)) # "none"
                      THEN fitswcs_to_gwcs(Header(hdu))
                      ELSE fitswcs_to_gwcs(Header(hdulist[1]))
    IN  IF withOthers.err # "none" THEN withOthers
        ELSE Ok([withOthers.ad EXCEPT !.nddata[last].wcs =
                    IF fromTable # "none" THEN fromTable ELSE fromHeader])

\* a variant that passes over a SCI HDU whose EXTVER an earlier one has
RECURSIVE ReadUnits_first(_, _, _, _)
ReadUnits_first(res, hdulist, sci_units, n) ==
    IF n > Len(sci_units) \/ res.err # "none" THEN res
    ELSE IF \E m \in 1..(n - 1) : hdulist[sci_units[m]].ver = hdulist[sci_units[n]].ver
    THEN ReadUnits_first(res, hdulist, sci_units, n + 1)
    ELSE ReadUnits_first(ReadUnit(res.ad, hdulist, sci_units[n]), hdulist, sci_units,
                         n + 1)

\* for hdu in sci_units: a second SCI HDU of an EXTVER is logged and read
\* like any other
RECURSIVE ReadUnits(_, _, _, _)
ReadUnits(res, hdulist, sci_units, n) ==
    IF n > Len(sci_units) \/ res.err # "none" THEN res
    ELSE ReadUnits(ReadUnit(res.ad, hdulist, sci_units[n]), hdulist, sci_units, n + 1)

\* the last loop: ad.append(other, name=EXTNAME) for the HDUs not seen, a
\* ValueError discarding the HDU
RECURSIVE AppendUnseen(_, _, _, _)
AppendUnseen(res, hdulist, unseen, n) ==
    IF n > Len(unseen) \/ res.err # "none" THEN res
    ELSE LET other == hdulist[unseen[n]]
             r == append(res.ad, other, other.name)
         IN  AppendUnseen(IF r.err = "ValueError" THEN Ok(res.ad) ELSE r,
                          hdulist, unseen, n + 1)

Range(f) == {f[i] : i \in DOMAIN f}

\* the positions the loop over the SCI HDUs adds to seen
SeenBySci(hdulist, sci_units) ==
    {1} \cup Range(sci_units)
    \cup UNION {Range(associated_extensions(hdulist, hdulist[i].ver)) :
                   i \in Range(sci_units)}

read_fits(id, hdus) ==
    LET hdulist == _prepare_hdulist(hdus)
        ad == [AstroData(id) EXCEPT !.phu = [fitswcs |-> hdulist[1].fitswcs]]
        sci_units == SelectSeq(Tail(Indices(hdulist)),
                               LAMBDA j : hdulist[j].name = DEFAULT_EXTENSION)
        unseen == SelectSeq(Indices(hdulist),
                            LAMBDA j : j \notin SeenBySci(hdulist, sci_units))
    IN  AppendUnseen(ReadUnits(Ok(ad), hdulist, sci_units, 1), hdulist, unseen, 1)

(***************************************************************************)
(* fits.py: ad_to_hdulist                                                  *)
(***************************************************************************)
\* a variant without the branch for tables
OtherHdu_image(other, header, ver) ==
    ImageHDU(other.name, ver, other.pay, header.fitswcs)

\* the HDU of an entry of meta["other"]: a table through
\* table_to_bintablehdu, an array through new_imagehdu, then hdu.ver = ver
OtherHdu(other, header, ver) ==
    IF other.kind = "Table" THEN TableHDU(other.name, ver, other.pay, "none")
    ELSE ImageHDU(other.name, ver, other.pay, header.fitswcs)

\* a variant that takes the entries in the order of their names
OtherHdus_sorted(ext, header, ver) ==
    LET names == SelectSeq(AlphaOrder, LAMBDA n : n \in Keys(ext.other))
    IN  [i \in DOMAIN names |->
            OtherHdu(ext.other[CHOOSE j \in DOMAIN ext.other :
                                  ext.other[j].name = names[i]], header, ver)]

\* for name, other in ext.meta["other"].items(): in insertion order
OtherHdus(ext, header, ver) ==
    [i \in DOMAIN ext.other |-> OtherHdu(ext.other[i], header, ver)]

\* a variant that renumbers every unit
UnitVer_renumbered(st, ad, ext) ==
    st.maxver + 1

\* the EXTVER a unit is written with
UnitVer(st, ad, ext) ==
    IF ext.parent_ad = ad.id THEN ext.header.EXTVER ELSE st.maxver + 1

\* wcs_to_asdftablehdu(wcs, extver): the table, or the TypeError raised when
\* asdf has no schema for a model of the transform
wcs_to_asdftablehdu(wcs, extver) ==
    IF wcs = "unserial" THEN [err |-> "TypeError", hdu |-> <<>>]
    ELSE [err |-> "none", hdu |-> TableHDU("WCS", extver, NoData, wcs)]

\* the body of the loop over the units: st = [hdul, maxver, err]
WriteUnit(st, ad, ext) ==
    LET owned == ext.parent_ad = ad.id
        ver == UnitVer(st, ad, ext)
        fits == IF ext.wcs = "none" THEN "none" ELSE gwcs_to_fits(ext.wcs)
        header == [EXTNAME |-> ext.header.EXTNAME, EXTVER |-> ver,
                   fitswcs |-> IF fits \in {"exact", "APPROXIMATE"} THEN TRUE
                               ELSE ext.header.fitswcs]
        \* wcs = None when the keywords hold the whole transform
        wcs == IF fits = "exact" THEN "none" ELSE ext.wcs
        sci == <<ImageHDU("SCI", ver, ext.data, header.fitswcs)>>
        var == IF ext.uncertainty # NoData
               THEN <<ImageHDU("VAR", ver, ext.uncertainty, header.fitswcs)>>
               ELSE <<>>
        dq == IF ext.mask # NoData
              THEN <<ImageHDU("DQ", ver, ext.mask, header.fitswcs)>>
              ELSE <<>>
        table == wcs_to_asdftablehdu(ext.wcs, ver)
        tbl == IF wcs # "none" THEN <<table.hdu>> ELSE <<>>
    IN  IF wcs # "none" /\ table.err # "none"
        THEN [st EXCEPT !.err = table.err]
        ELSE [hdul |-> st.hdul \o sci \o var \o dq \o tbl \o OtherHdus(ext, header, ver),
              maxver |-> IF owned THEN st.maxver ELSE st.maxver + 1,
              err |-> "none"]

RECURSIVE WriteUnits(_, _, _)
WriteUnits(st, ad, n) ==
    IF n > Len(ad.nddata) \/ st.err # "none" THEN st
    ELSE WriteUnits(WriteUnit(st, ad, ad.nddata[n]), ad, n + 1)

\* sorted(ad._tables.items()) as HDUs, each with the EXTVER of its own header
SortedTables(tables) ==
    LET names == SelectSeq(AlphaOrder, LAMBDA n : n \in TableNames(tables))
    IN  [i \in DOMAIN names |->
            LET t == CHOOSE x \in tables : x.name = names[i]
            IN  TableHDU(t.name, t.ver, t.pay, "none")]

ad_to_hdulist(ad) ==
    LET maxver == MaxOf({0} \cup
                        {IF ad.nddata[k].header.EXTVER = NoVer THEN 0
                         ELSE ad.nddata[k].header.EXTVER :
                            k \in {j \in DOMAIN ad.nddata :
                                      ad.nddata[j].parent_ad = ad.id}})
        phu == [PrimaryHDU(NoData) EXCEPT !.fitswcs = ad.phu.fitswcs]
        units == WriteUnits([hdul |-> <<phu>>, maxver |-> maxver, err |-> "none"], ad, 1)
    IN  IF units.err # "none" THEN [err |-> units.err, hdul |-> <<>>]
        ELSE [err |-> "none", hdul |-> units.hdul \o SortedTables(ad.tables)]

(***************************************************************************)
(* SpecRead: a file is put together HDU by HDU, read (AstroData.read),     *)
(* written (AstroData.write) and read back.  The payload of an HDU is its  *)
(* position in the file.                                                   *)
(***************************************************************************)
OwnerId == 1
RereadId == 2

\* the EXTVER an HDU of the file can have
Versions == {NoVer, 1, 2}

\* the HDUs a file can hold at position pay
RawHdus(pay) ==
    {ImageHDU("SCI", v, pay, f) : v \in Versions, f \in BOOLEAN}
    \cup {ImageHDU(n, v, pay, FALSE) :
             n \in {"DQ", "VAR", "OBJMASK", ""}, v \in Versions}
    \cup {TableHDU("WCS", v, pay, g) : v \in Versions, g \in {"approx", "fail"}}
    \cup {TableHDU(n, v, pay, "none") :
             n \in {"OBJCAT", "REFCAT", "", "objcat"}, v \in Versions}

InitRead ==
    /\ decl = <<>> /\ members = <<>>
    /\ file = <<PrimaryHDU(NoData)>>
    /\ ad1 = AstroData(NoId) /\ hdul = <<>> /\ ad2 = AstroData(NoId)
    /\ pc = "file" /\ raised = "none"
    /\ origin = <<>> /\ nops = 0
    /\ nd1 = <<>> /\ call = <<>>
    /\ view = <<>> /\ path = <<>> /\ heap = <<>>

\* one more HDU in a multi-extension file
AddHdu(hdu) ==
    /\ pc = "file"
    /\ file[1].pay = NoData
    /\ Len(file) < 1 + MaxHdus
    /\ file' = Append(file, hdu)
    /\ UNCHANGED <<tagVars, objVars, unitVars, viewVars, ad1, hdul, ad2, pc, raised, opVars>>

\* a file that is a single image: the primary HDU holds the array
SingleImage(f) ==
    /\ pc = "file"
    /\ Len(file) = 1 /\ file[1].pay = NoData
    /\ file' = <<[PrimaryHDU(1) EXCEPT !.fitswcs = f]>>
    /\ UNCHANGED <<tagVars, objVars, unitVars, viewVars, ad1, hdul, ad2, pc, raised, opVars>>

\* ad1 = AstroData.read(file)
Read ==
    /\ pc = "file"
    /\ LET r == read_fits(OwnerId, file)
       IN  /\ ad1' = r.ad
           /\ raised' = r.err
           /\ pc' = IF r.err = "none" THEN "read" ELSE "failed"
    /\ UNCHANGED <<tagVars, objVars, unitVars, viewVars, file, hdul, ad2, opVars>>

\* ad1.write(): write_fits hands ad_to_hdulist(ad1) to HDUList.writeto;
\* nothing is written when ad_to_hdulist raises
Write ==
    /\ pc = "read"
    /\ LET r == ad_to_hdulist(ad1)
       IN  /\ hdul' = IF r.err = "none" THEN r.hdul ELSE hdul
           /\ raised' = IF r.err = "none" THEN raised ELSE r.err
           /\ pc' = IF r.err = "none" THEN "written" ELSE "failed"
    /\ UNCHANGED <<tagVars, objVars, unitVars, viewVars, file, ad1, ad2, opVars>>

\* ad2 = AstroData.read of the file just written
Reread ==
    /\ pc = "written"
    /\ LET r == read_fits(RereadId, hdul)
       IN  /\ ad2' = r.ad
           /\ raised' = r.err
           /\ pc' = IF r.err = "none" THEN "reread" ELSE "failed"
    /\ UNCHANGED <<tagVars, objVars, unitVars, viewVars, file, ad1, hdul, opVars>>

NextRead ==
    \/ \E hdu \in RawHdus(Len(file) + 1) : AddHdu(hdu)
    \/ \E f \in BOOLEAN : SingleImage(f)
    \/ Read
    \/ Write
    \/ Reread

SpecRead == InitRead /\ [][NextRead]_vars

(***************************************************************************)
(* core.py: the operations on a dataset that was read.                     *)
(***************************************************************************)
RemoveAt(seq, k) == [i \in 1..(Len(seq) - 1) |-> IF i < k THEN seq[i] ELSE seq[i + 1]]

\* AstroData.__delitem__ on a dataset that is not sliced
__delitem__(ad, idx) ==
    IF idx \in DOMAIN ad.nddata
    THEN Ok([ad EXCEPT !.nddata = RemoveAt(@, idx)])
    ELSE Raise("IndexError", ad)

\* AstroData.__delattr__ on the dataset (k = 0) or on its single slice ad[k]
__delattr__(ad, k, attribute) ==
    IF ~isupper(attribute) THEN Raise("AttributeError", ad)
    ELSE IF k # 0
    THEN IF attribute \in Keys(ad.nddata[k].other)
         THEN Ok([ad EXCEPT !.nddata[k].other =
                     SelectSeq(@, LAMBDA e : e.name # attribute)])
         ELSE Raise("AttributeError", ad)
    ELSE IF attribute \in TableNames(ad.tables)
         THEN Ok([ad EXCEPT !.tables = {t \in @ : t.name # attribute}])
         ELSE Raise("AttributeError", ad)

\* the array an arithmetic operation computes from the array pay
ArithPay == 100
Result(pay) == pay + ArithPay

\* AstroData._oper for an in-place operator (handle_meta="first_found": the
\* result keeps the meta of the unit): operand is [kind |-> "scalar"] or a
\* dataset [kind |-> "astrodata", len, tables]
_oper(ad, operand) ==
    IF operand.kind = "astrodata" /\ operand.len # Len(ad.nddata)
    THEN Raise("ValueError", ad)
    ELSE LET ndd == [n \in DOMAIN ad.nddata |->
                        [ad.nddata[n] EXCEPT !.data = Result(@)]]
             rtab == IF operand.kind = "astrodata" THEN operand.tables ELSE {}
         IN  Ok([ad EXCEPT !.nddata = ndd,
                           !.tables = @ \cup {t \in rtab :
                                                 t.name \notin TableNames(ad.tables)}])

(***************************************************************************)
(* Spec: a dataset is read from a file, changed by up to MaxOps operations *)
(* and written.                                                            *)
(***************************************************************************)
StartFiles ==
    {<<PrimaryHDU(NoData), ImageHDU("SCI", 1, 2, FALSE), ImageHDU("SCI", 2, 3, FALSE)>>,
     <<PrimaryHDU(NoData), ImageHDU("SCI", 1, 2, TRUE), ImageHDU("VAR", 1, 3, FALSE),
       ImageHDU("DQ", 1, 4, FALSE)>>,
     <<PrimaryHDU(NoData), ImageHDU("SCI", 1, 2, FALSE), TableHDU("WCS", 1, 3, "approx"),
       TableHDU("OBJCAT", 1, 4, "none")>>}

\* another dataset, read from another file
ForeignId == 3
Foreign ==
    read_fits(ForeignId, <<PrimaryHDU(NoData), ImageHDU("SCI", 1, 21, FALSE),
                           TableHDU("OBJCAT", NoVer, 22, "none")>>).ad

\* the values the operations hand over
NewArray == [kind |-> "array", pay |-> 11]
NewTable == [kind |-> "Table", name |-> "", ver |-> NoVer, pay |-> 12]
NewImageHDU == ImageHDU("", NoVer, 13, FALSE)
NewTableHDU == TableHDU("", NoVer, 14, "none")
\* the names of the mask and the variance HDUs
Reserved == {"DQ", "VAR"}
Slice(d, k) == [kind |-> "astrodata", is_single |-> TRUE, nd |-> d.nddata[k]]
Operands ==
    {[kind |-> "scalar"],
     [kind |-> "astrodata", len |-> Len(Foreign.nddata), tables |-> Foreign.tables]}

Init ==
    /\ decl = <<>> /\ members = <<>>
    /\ file \in StartFiles
    /\ ad1 = read_fits(OwnerId, file).ad
    /\ origin = [k \in DOMAIN ad1.nddata |-> ad1.nddata[k].header.EXTVER]
    /\ hdul = <<>> /\ ad2 = AstroData(NoId)
    /\ pc = "read" /\ raised = "none" /\ nops = 0
    /\ nd1 = <<>> /\ call = <<>>
    /\ view = <<>> /\ path = <<>> /\ heap = <<>>

\* an operation on ad1 that left r; grown says whether it added a unit
Operation(r, grown) ==
    /\ ad1' = r.ad
    /\ raised' = r.err
    /\ origin' = IF grown /\ r.err = "none" THEN Append(origin, NoVer) ELSE origin
    /\ nops' = nops + 1
    /\ UNCHANGED <<tagVars, objVars, unitVars, viewVars, file, hdul, ad2, pc>>

\* ad1.append(ext): an array, a single slice of ad1 or a single slice of
\* the other dataset
AppendExt(ext) ==
    /\ pc = "read" /\ nops < MaxOps
    /\ Operation(append(ad1, ext, ""), TRUE)

\* ad1.append(ext, name=name) for a reserved name
AppendAs(ext, name) ==
    /\ pc = "read" /\ nops < MaxOps
    /\ LET r == append(ad1, ext, name)
       IN  Operation(r, Len(r.ad.nddata) > Len(ad1.nddata))

\* del ad1[k]
Delete(k) ==
    /\ pc = "read" /\ nops < MaxOps
    /\ k \in DOMAIN ad1.nddata
    /\ ad1' = __delitem__(ad1, k).ad
    /\ raised' = "none"
    /\ origin' = RemoveAt(origin, k)
    /\ nops' = nops + 1
    /\ UNCHANGED <<tagVars, objVars, unitVars, viewVars, file, hdul, ad2, pc>>

\* ad1.NAME = value (k = 0) or ad1[k - 1].NAME = value
SetAttr(k, name, value) ==
    /\ pc = "read" /\ nops < MaxOps
    /\ k \in {0} \cup DOMAIN ad1.nddata
    /\ Operation(__setattr__(ad1, k, name, value), k = 0 /\ value.kind = "array")

\* del ad1.NAME (k = 0) or del ad1[k - 1].NAME
DelAttr(k, name) ==
    /\ pc = "read" /\ nops < MaxOps
    /\ k \in {0} \cup DOMAIN ad1.nddata
    /\ Operation(__delattr__(ad1, k, name), FALSE)

\* ad1 += operand
IAdd(operand) ==
    /\ pc = "read" /\ nops < MaxOps
    /\ Operation(_oper(ad1, operand), FALSE)

\* ad1[k - 1].wcs = w
SetWcs(k, w) ==
    /\ pc = "read" /\ nops < MaxOps
    /\ k \in DOMAIN ad1.nddata
    /\ Operation(Ok([ad1 EXCEPT !.nddata[k].wcs = w]), FALSE)

Next ==
    \/ AppendExt(NewArray)
    \/ \E k \in DOMAIN ad1.nddata : AppendExt(Slice(ad1, k))
    \/ AppendExt(Slice(Foreign, 1))
    \/ \E k \in 1..3 : Delete(k)
    \/ \E k \in 0..3, name \in {"OBJCAT", "OBJMASK"}, value \in {NewArray, NewTable} :
          SetAttr(k, name, value)
    \/ \E k \in 0..3, name \in Reserved, value \in {NewArray, NewTable, NewImageHDU} :
          SetAttr(k, name, value)
    \/ \E ext \in {NewArray, NewImageHDU, NewTableHDU}, name \in Reserved :
          AppendAs(ext, name)
    \/ \E k \in 0..3, name \in {"OBJCAT", "OBJMASK"} : DelAttr(k, name)
    \/ \E operand \in Operands : IAdd(operand)
    \/ \E k \in 1..3, w \in {"none", "fail"} : SetWcs(k, w)
    \/ Write

Spec == Init /\ [][Next]_vars

(***************************************************************************)
(* SpecWcs: a file with transforms, some of them stored in a WCS HDU that  *)
(* cannot be read back, is read; transforms are assigned to its units,     *)
(* some of which cannot be serialized; the dataset is written and read     *)
(* back.                                                                   *)
(***************************************************************************)
\* the WCS HDU of a unit: none, a table that serializes a transform, a table
\* asdftablehdu_to_wcs cannot parse, or an HDU that is no table
WcsHdus(ver, pay) ==
    {<<>>, <<TableHDU("WCS", ver, pay, "approx")>>, <<TableHDU("WCS", ver, pay, "fail")>>,
     <<TableHDU("WCS", ver, pay, "none")>>, <<ImageHDU("WCS", ver, pay, FALSE)>>}

WcsFiles ==
    {<<PrimaryHDU(NoData), ImageHDU("SCI", 1, 2, f)>> \o w1
        \o <<ImageHDU("SCI", 2, 4, FALSE), ImageHDU("DQ", 2, 5, FALSE)>> \o w2
        \o <<TableHDU("REFCAT", NoVer, 7, "none")>> :
        f \in BOOLEAN, w1 \in WcsHdus(1, 3), w2 \in WcsHdus(2, 6)}

InitWcs ==
    /\ decl = <<>> /\ members = <<>>
    /\ file \in WcsFiles
    /\ ad1 = AstroData(NoId) /\ hdul = <<>> /\ ad2 = AstroData(NoId)
    /\ pc = "file" /\ raised = "none"
    /\ origin = <<>> /\ nops = 0
    /\ nd1 = <<>> /\ call = <<>>
    /\ view = <<>> /\ path = <<>> /\ heap = <<>>

NextWcs ==
    \/ Read
    \/ \E k \in 1..2, w \in {"none", "approx", "unserial"} : SetWcs(k, w)
    \/ Write
    \/ Reread

SpecWcs == InitWcs /\ [][NextWcs]_vars

(***************************************************************************)
(* core.py: the data, mask and variance of a single slice, and reset.      *)
(* A value is a record with the attributes the code asks for (hasattr): an *)
(* array has a shape, None and the scalar 1 have none.                     *)
(***************************************************************************)
hasattr(value, name) == name \in DOMAIN value

None_ == [kind |-> "None"]
NO_DEFAULT == [kind |-> "NO_DEFAULT"]
Scalar == [kind |-> "int"]
\* numpy: ndarray.data is the buffer of the array, a memoryview of its shape
memoryview(shape) == [kind |-> "memoryview", shape |-> shape]
ndarray(shape) == [kind |-> "ndarray", shape |-> shape, data |-> memoryview(shape)]
\* np.ma.array(data, mask=...): .data and .mask are arrays of its shape
MaskedArray(shape) ==
    [kind |-> "MaskedArray", shape |-> shape, data |-> ndarray(shape),
     mask |-> ndarray(shape)]
\* astropy NDData(data, uncertainty, mask): nothing ties their shapes
NDData(data, uncertainty, mask) ==
    [kind |-> "NDData", data |-> data, uncertainty |-> uncertainty, mask |-> mask,
     wcs |-> "none"]

\* the NDAstroData of the slice; uncertainty is the array of its
\* ADVarianceUncertainty, or None
Unit(data, mask, uncertainty) ==
    [data |-> data, mask |-> mask, uncertainty |-> uncertainty, wcs |-> "none"]

\* assign_only_single_slice
NotSingle(nd) == Raise("ValueError", nd)

\* AstroData.data setter
data_setter(nd, is_single, value) ==
    IF ~is_single THEN NotSingle(nd)
    ELSE IF hasattr(value, "shape") THEN Ok([nd EXCEPT !.data = value])
    ELSE Raise("AttributeError", nd)

\* AstroData.mask setter
mask_setter(nd, is_single, value) ==
    IF ~is_single THEN NotSingle(nd) ELSE Ok([nd EXCEPT !.mask = value])

\* AstroData.variance setter
variance_setter(nd, is_single, value) ==
    IF ~is_single THEN NotSingle(nd) ELSE Ok([nd EXCEPT !.uncertainty = value])

\* a variant of the test that never finds the shapes to differ
incompatible_never(value, nd, check) ==
    FALSE

\* value.shape != self.data.shape and check
incompatible(value, nd, check) ==
    value.shape # nd.data.shape /\ check

\* reset: "In case data is an NDData object"; the except branch assigns data
\* itself, and the AttributeError of the setter then leaves the call
reset_data(nd, data) ==
    IF hasattr(data, "data") /\ hasattr(data.data, "shape")
    THEN data_setter(nd, TRUE, data.data)
    ELSE data_setter(nd, TRUE, data)

\* reset: "Set mask, with checking if required"
reset_mask(nd, data, mask, check) ==
    IF hasattr(mask, "shape")
    THEN IF incompatible(mask, nd, check) THEN Raise("ValueError", nd)
         ELSE mask_setter(nd, TRUE, mask)
    ELSE IF mask.kind = "None" THEN mask_setter(nd, TRUE, mask)
    ELSE IF mask.kind = "NO_DEFAULT"
    THEN IF hasattr(data, "mask") THEN mask_setter(nd, TRUE, data.mask) ELSE Ok(nd)
    ELSE Raise("TypeError", nd)

\* reset: "Set variance, with checking if required"
reset_variance(nd, data, variance, check) ==
    IF hasattr(variance, "shape")
    THEN IF incompatible(variance, nd, check) THEN Raise("ValueError", nd)
         ELSE variance_setter(nd, TRUE, variance)
    ELSE IF variance.kind = "None" THEN Ok([nd EXCEPT !.uncertainty = None_])
    ELSE IF variance.kind = "NO_DEFAULT"
    THEN IF hasattr(data, "uncertainty")
         THEN Ok([nd EXCEPT !.uncertainty = data.uncertainty])
         ELSE Ok(nd)
    ELSE Raise("TypeError", nd)

\* AstroData.reset: every step works on what the step before it left, and an
\* exception leaves the call with the assignments made so far
reset(nd, is_single, data, mask, variance, check) ==
    IF ~is_single THEN Raise("ValueError", nd)
    ELSE LET d == reset_data(nd, data)
         IN  IF d.err # "none" THEN d
             ELSE LET m == reset_mask(d.ad, data, mask, check)
                  IN  IF m.err # "none" THEN m
                      ELSE LET v == reset_variance(m.ad, data, variance, check)
                           IN  IF v.err # "none" THEN v
                               ELSE IF hasattr(data, "wcs")
                               THEN Ok([v.ad EXCEPT !.wcs = data.wcs])
                               ELSE v

(***************************************************************************)
(* SpecUnit: assignments and reset calls on a single slice ext = ad[0] of  *)
(* a dataset, and on the dataset itself (which is not a single slice).     *)
(***************************************************************************)
SHAPE == <<40, 50>>
Shapes == {SHAPE, <<2, 2>>}
Arrays == {ndarray(shape) : shape \in Shapes}
Optional == Arrays \cup {None_}

\* what a caller hands to reset as data, and as mask or variance
DataArgs ==
    Arrays \cup {MaskedArray(shape) : shape \in Shapes} \cup {Scalar}
    \cup {NDData(d, u, m) : d \in Arrays, u \in Optional, m \in Optional}
PlaneArgs == Optional \cup {NO_DEFAULT, Scalar}

InitUnit ==
    /\ decl = <<>> /\ members = <<>>
    /\ file = <<>> /\ ad1 = <<>> /\ hdul = <<>> /\ ad2 = <<>>
    /\ origin = <<>> /\ nops = 0
    /\ nd1 \in {Unit(ndarray(SHAPE), m, u) : m, u \in {None_, ndarray(SHAPE)}}
    /\ call = [op |-> "create"]
    /\ view = <<>> /\ path = <<>> /\ heap = <<>>
    /\ pc = "unit" /\ raised = "none"

\* a call that left r
Called(c, r) ==
    /\ nd1' = r.ad
    /\ raised' = r.err
    /\ call' = c
    /\ UNCHANGED <<tagVars, objVars, viewVars, file, ad1, hdul, ad2, pc, opVars>>

\* ext.data = value, or ad.data = value
SetData(is_single, value) ==
    /\ pc = "unit"
    /\ Called([op |-> "data"], data_setter(nd1, is_single, value))

\* ext.mask = value, or ad.mask = value
SetMask(is_single, value) ==
    /\ pc = "unit"
    /\ Called([op |-> "mask"], mask_setter(nd1, is_single, value))

\* ext.variance = value, or ad.variance = value
SetVariance(is_single, value) ==
    /\ pc = "unit"
    /\ Called([op |-> "variance"], variance_setter(nd1, is_single, value))

\* ext.reset(data, mask, variance, check), or ad.reset(...)
Reset(is_single, data, mask, variance, check) ==
    /\ pc = "unit"
    /\ Called([op |-> "reset", mask |-> mask, variance |-> variance, check |-> check],
              reset(nd1, is_single, data, mask, variance, check))

NextUnit ==
    \/ \E is_single \in BOOLEAN, value \in Arrays \cup {Scalar} :
          SetData(is_single, value)
    \/ \E is_single \in BOOLEAN, value \in Optional : SetMask(is_single, value)
    \/ \E is_single \in BOOLEAN, value \in Optional : SetVariance(is_single, value)
    \/ \E is_single \in BOOLEAN, data \in DataArgs, mask \in PlaneArgs,
          variance \in PlaneArgs, check \in BOOLEAN :
          Reset(is_single, data, mask, variance, check)

SpecUnit == InitUnit /\ [][NextUnit]_vars

(***************************************************************************)
(* core.py, utils.py: views.  An AstroData object is the dataset ad (its   *)
(* _all_nddatas; its _tables and phu are followed in SpecShare) seen      *)
(* through a handle: _indices (None for the dataset itself) and is_single. *)
(* Indices                                                                 *)
(* are Python's: 0-based, a negative one counting from the end.            *)
(***************************************************************************)
None == <<>>
Some(n) == <<n>>
Int_(i) == [kind |-> "int", i |-> i]
Tuple_(items) == [kind |-> "tuple", items |-> items]
slice(start, stop, step) == [kind |-> "slice", start |-> start, stop |-> stop, step |-> step]

Handle(indices, is_single) == [sliced |-> TRUE, indices |-> indices, is_single |-> is_single]
Owner == [sliced |-> FALSE, indices |-> <<>>, is_single |-> FALSE]

\* list[i]: the position (1-based) of the Python index i in a list of n
\* items, 0 when list[i] raises IndexError
PyPos(n, i) ==
    IF 0 <= i /\ i < n THEN i + 1
    ELSE IF 0 - n <= i /\ i < 0 THEN n + i + 1
    ELSE 0

\* slice.indices(n) for a step other than 0
slice_indices(slc, n) ==
    LET step == IF slc.step = None THEN 1 ELSE slc.step[1]
        lo == IF step < 0 THEN 0 - 1 ELSE 0
        hi == IF step < 0 THEN n - 1 ELSE n
        clamp(x) == IF x < 0 THEN (IF x + n < lo THEN lo ELSE x + n)
                    ELSE (IF x > hi THEN hi ELSE x)
    IN  [start |-> IF slc.start = None THEN (IF step < 0 THEN hi ELSE lo)
                   ELSE clamp(slc.start[1]),
         stop |-> IF slc.stop = None THEN (IF step < 0 THEN lo ELSE hi)
                  ELSE clamp(slc.stop[1]),
         step |-> step]

\* list(range(start, stop, step))
range(start, stop, step) ==
    LET n == IF step > 0
             THEN (IF start < stop THEN (stop - start - 1) \div step + 1 ELSE 0)
             ELSE (IF start > stop THEN (start - stop - 1) \div (0 - step) + 1 ELSE 0)
    IN  [k \in 1..n |-> start + (k - 1) * step]

\* utils.normalize_indices: [err, indices]
normalize_indices(slc, nitems) ==
    LET ind ==
            IF slc.kind = "slice"
            THEN LET r == slice_indices(slc, nitems)
                 IN  range(r.start, r.stop, r.step)
            ELSE LET items == IF slc.kind = "int" THEN <<slc.i>> ELSE slc.items
                 IN  [k \in DOMAIN items |->
                         IF items[k] >= 0 THEN items[k] ELSE nitems + items[k]]
    IN  IF \E k \in DOMAIN ind : ind[k] >= nitems
        THEN [err |-> "IndexError", indices |-> <<>>]
        ELSE [err |-> "none", indices |-> ind]

\* a variant that takes every list with an entry for a view
is_sliced_truthy(h) ==
    h.indices # <<>>

\* AstroData.is_sliced: self._indices is not None
is_sliced(h) ==
    h.sliced

\* AstroData.__len__
__len__(ad, h) ==
    IF h.sliced THEN Len(h.indices)
    ELSE IF h.is_single THEN 1
    ELSE Len(ad.nddata)

\* a variant that numbers the units of a view from 0
indices_range(ad, h) ==
    range(0, __len__(ad, h), 1)

\* AstroData.indices: self._indices if self._indices else range(len(self))
indices(ad, h) ==
    IF h.indices # <<>> THEN h.indices ELSE range(0, __len__(ad, h), 1)

\* a variant that takes the indices as indices of the dataset
map_indices_none(h, ind) ==
    [err |-> "none", indices |-> ind]

\* __getitem__: if self._indices: indices = [self._indices[i] for i in indices]
map_indices(h, ind) ==
    IF h.indices = <<>> THEN [err |-> "none", indices |-> ind]
    ELSE IF \E k \in DOMAIN ind : PyPos(Len(h.indices), ind[k]) = 0
    THEN [err |-> "IndexError", indices |-> <<>>]
    ELSE [err |-> "none",
          indices |-> [k \in DOMAIN ind |-> h.indices[PyPos(Len(h.indices), ind[k])]]]

\* AstroData.__getitem__: [err, handle]
__getitem__(ad, h, idx) ==
    IF h.is_single THEN [err |-> "TypeError", handle |-> h]
    ELSE LET r == normalize_indices(idx, __len__(ad, h))
         IN  IF r.err # "none" THEN [err |-> r.err, handle |-> h]
             ELSE LET m == map_indices(h, r.indices)
                  IN  IF m.err # "none" THEN [err |-> m.err, handle |-> h]
                      ELSE [err |-> "none",
                            handle |-> Handle(m.indices, idx.kind = "int")]

\* the loop of _oper for a scalar operand, from its n-th round on:
\* ndd[ind[n]] = operator(ndd[ind[n]], operand)
RECURSIVE OperLoop(_, _, _)
OperLoop(ad, ind, n) ==
    IF n > Len(ind) THEN Ok(ad)
    ELSE LET pos == PyPos(Len(ad.nddata), ind[n])
         IN  IF pos = 0 THEN Raise("IndexError", ad)
             ELSE OperLoop([ad EXCEPT !.nddata[pos].data = Result(@)], ind, n + 1)

\* AstroData._standard_nddata_op through a handle, for a scalar operand
_standard_nddata_op(ad, h, operand) ==
    OperLoop(ad, indices(ad, h), 1)

\* ext.data = value, ext.mask = value, ext.uncertainty = value
\* (assign_only_single_slice, then self.nddata, which is self._nddata[0])
assign(ad, h, plane, value) ==
    IF ~h.is_single THEN Raise("ValueError", ad)
    ELSE LET pos == PyPos(Len(ad.nddata), h.indices[1])
         IN  IF pos = 0 THEN Raise("IndexError", ad)
             ELSE Ok([ad EXCEPT !.nddata[pos][plane] = value])

\* AstroData.append through a handle
append_to(ad, h, ext) ==
    IF is_sliced(h) THEN Raise("TypeError", ad) ELSE append(ad, ext, "")

\* del self[i] through a handle
delete_from(ad, h, i) ==
    IF is_sliced(h) THEN Raise("TypeError", ad)
    ELSE IF PyPos(Len(ad.nddata), i) = 0 THEN Raise("IndexError", ad)
    ELSE __delitem__(ad, PyPos(Len(ad.nddata), i))

(***************************************************************************)
(* SpecView: a dataset of up to MaxUnits units is indexed up to MaxDepth   *)
(* times, and up to MaxViewOps operations are made on the dataset or on a  *)
(* view that is at most MaxOpDepth indexings away from it; an exception    *)
(* ends the run.                                                           *)
(***************************************************************************)
MaxUnits == 3
MaxDepth == 2
MaxViewOps == 1
MaxOpDepth == 1

UnitFile(n) ==
    <<PrimaryHDU(NoData)>> \o [k \in 1..n |-> ImageHDU("SCI", k, k + 1, FALSE)]

SliceBounds == {None} \cup {Some(i) : i \in (0 - (MaxUnits + 1))..(MaxUnits + 1)}
SliceSteps == {None, Some(0 - 1), Some(2)}
Slices == {slice(a, b, c) : a \in SliceBounds, b \in SliceBounds, c \in SliceSteps}
Integers_ == {Int_(i) : i \in (0 - (2 * MaxUnits + 1))..(2 * MaxUnits)}
Tuples == {Tuple_(t) : t \in {<<>>, <<0, 0>>, <<0, 0 - 1>>, <<MaxUnits - 1, 0>>,
                               <<0 - (MaxUnits + 1)>>, <<1, MaxUnits>>}}
Indexes == Slices \cup Integers_ \cup Tuples

NewPlane == 31

InitView ==
    /\ decl = <<>> /\ members = <<>>
    /\ file \in {UnitFile(n) : n \in 1..MaxUnits}
    /\ ad1 = read_fits(OwnerId, file).ad
    /\ hdul = <<>> /\ ad2 = <<>>
    /\ origin = <<>> /\ nops = 0
    /\ nd1 = <<>>
    /\ call = [op |-> "read"]
    /\ view = Owner /\ path = <<>> /\ heap = <<>>
    /\ pc = "view" /\ raised = "none"

\* view = view[idx]
GetItem(idx) ==
    /\ pc = "view" /\ raised = "none"
    /\ nops = 0 /\ Len(path) < MaxDepth
    /\ LET r == __getitem__(ad1, view, idx)
       IN  /\ raised' = r.err
           /\ view' = r.handle
           /\ path' = IF r.err = "none" THEN Append(path, idx) ELSE path
    /\ call' = [op |-> "getitem", idx |-> idx, nitems |-> __len__(ad1, view),
                single |-> view.is_single]
    /\ UNCHANGED <<tagVars, objVars, file, ad1, hdul, ad2, pc, opVars, nd1>>

\* an operation made through view that left r
ViewCalled(c, r) ==
    /\ nops < MaxViewOps /\ Len(path) <= MaxOpDepth
    /\ ad1' = r.ad
    /\ raised' = r.err
    /\ call' = c
    /\ nops' = nops + 1
    /\ UNCHANGED <<tagVars, objVars, viewVars, file, hdul, ad2, pc, origin, nd1>>

\* view += 1
ViewIAdd ==
    /\ pc = "view" /\ raised = "none"
    /\ ViewCalled([op |-> "iadd"], _standard_nddata_op(ad1, view, [kind |-> "scalar"]))

\* view.data = value, view.mask = value, view.uncertainty = value
ViewAssign(plane) ==
    /\ pc = "view" /\ raised = "none"
    /\ ViewCalled([op |-> "assign", plane |-> plane], assign(ad1, view, plane, NewPlane))

\* view.append(array)
ViewAppend ==
    /\ pc = "view" /\ raised = "none"
    /\ ViewCalled([op |-> "append"], append_to(ad1, view, NewArray))

\* del view[i]
ViewDelete(i) ==
    /\ pc = "view" /\ raised = "none"
    /\ ViewCalled([op |-> "delete"], delete_from(ad1, view, i))

NextView ==
    \/ \E idx \in Indexes : GetItem(idx)
    \/ ViewIAdd
    \/ \E plane \in {"data", "mask", "uncertainty"} : ViewAssign(plane)
    \/ ViewAppend
    \/ \E i \in (0 - (MaxUnits + 1))..MaxUnits : ViewDelete(i)

SpecView == InitView /\ [][NextView]_vars

(***************************************************************************)
(* core.py: arithmetic on the values of the units.  A pixel array is one   *)
(* value (every pixel the same), a value is a fraction <<n, d>> in lowest  *)
(* terms with d > 0, a mask is a set of bits.                              *)
(***************************************************************************)
RECURSIVE Gcd(_, _)
Gcd(m, n) == IF n = 0 THEN m ELSE Gcd(n, m % n)

Abs(n) == IF n < 0 THEN 0 - n ELSE n

Frac(n, d) ==
    LET sn == IF d < 0 THEN 0 - n ELSE n
        sd == Abs(d)
        g  == Gcd(Abs(sn), sd)
    IN  <<sn \div g, sd \div g>>

\* numpy's add, subtract, multiply and true_divide on two values
ufunc(op, x, y) ==
    CASE op = "add"      -> Frac(x[1] * y[2] + y[1] * x[2], x[2] * y[2])
      [] op = "subtract" -> Frac(x[1] * y[2] - y[1] * x[2], x[2] * y[2])
      [] op = "multiply" -> Frac(x[1] * y[1], x[2] * y[2])
      [] op = "divide"   -> Frac(x[1] * y[2], x[2] * y[1])

\* a unit: its data, its variance (None or Some(value)) and its mask (None
\* or Some(set of bits))
ArithUnit(data, variance, mask) ==
    [data |-> data, variance |-> variance, mask |-> mask]

\* the variance of the result: the variances of uncorrelated operands are
\* propagated, a missing one counting as zero; None when both are missing
propagate(op, x, y) ==
    LET zero == Frac(0, 1)
        vx == IF x.variance = None THEN zero ELSE x.variance[1]
        vy == IF y.variance = None THEN zero ELSE y.variance[1]
        xx == ufunc("multiply", x.data, x.data)
        yy == ufunc("multiply", y.data, y.data)
    IN  IF x.variance = None /\ y.variance = None THEN None
        ELSE CASE op \in {"add", "subtract"} -> Some(ufunc("add", vx, vy))
               [] op = "multiply" ->
                    Some(ufunc("add", ufunc("multiply", vx, yy),
                               ufunc("multiply", vy, xx)))
               [] op = "divide" ->
                    Some(ufunc("add", ufunc("divide", vx, yy),
                               ufunc("divide", ufunc("multiply", vy, xx),
                                     ufunc("multiply", yy, yy))))

\* handle_mask=np.bitwise_or: the masks are or-ed, a missing one is skipped
bitwise_or(x, y) ==
    IF x.mask = None THEN y.mask
    ELSE IF y.mask = None THEN x.mask
    ELSE Some(x.mask[1] \cup y.mask[1])

\* NDAstroData.add, subtract, multiply, divide: a new unit
operator(op, x, y) ==
    ArithUnit(ufunc(op, x.data, y.data), propagate(op, x, y), bitwise_or(x, y))

\* a dataset on the heap: its units and its global tables
ArithData(nddata, tables) == [nddata |-> nddata, tables |-> tables]

\* a variant that hands out the object itself
deepcopy_alias(hp, self) ==
    [heap |-> hp, obj |-> self]

\* AstroData.__deepcopy__: a new object with copies of the units and of the
\* tables
deepcopy(hp, self) ==
    [heap |-> Append(hp, ArithData(hp[self].nddata, hp[self].tables)),
     obj |-> Len(hp) + 1]

\* _oper with a dataset as the operand, for __iadd__, __isub__, __imul__ and
\* __itruediv__: the units of self are replaced one by one, and the tables
\* of the operand that self does not have are taken over
__iop__(op, hp, self, operand) ==
    IF Len(hp[operand].nddata) # Len(hp[self].nddata)
    THEN [heap |-> hp, err |-> "ValueError"]
    ELSE LET ndd == [n \in DOMAIN hp[self].nddata |->
                        operator(op, hp[self].nddata[n], hp[operand].nddata[n])]
             ltab == {t.name : t \in hp[self].tables}
             tabs == hp[self].tables
                     \cup {t \in hp[operand].tables : t.name \notin ltab}
         IN  [heap |-> [hp EXCEPT ![self] = ArithData(ndd, tabs)],
              err |-> "none"]

\* __add__, __sub__, __mul__ and __truediv__: the operation in place on a
\* deep copy
__op__(op, hp, self, operand) ==
    LET copy == deepcopy(hp, self)
        r    == __iop__(op, copy.heap, copy.obj, operand)
    IN  [heap |-> r.heap, err |-> r.err, obj |-> copy.obj]

(***************************************************************************)
(* SpecArith: two datasets a (object 1) and b (object 2); copies are made  *)
(* and operated on, as in tests/test_core.py.                              *)
(***************************************************************************)
\* the number of calls made on the two datasets
MaxCalls == 3
\* the number of units of a dataset
MaxArithUnits == 2

Operators == {"add", "subtract", "multiply", "divide"}

\* the units of a and those of b
UnitsA ==
    {ArithUnit(Frac(1, 1), None, None),
     ArithUnit(Frac(3, 1), Some(Frac(1, 2)), Some({1}))}
UnitsB ==
    {ArithUnit(Frac(2, 1), None, None),
     ArithUnit(Frac(2, 1), Some(Frac(1, 1)), None),
     ArithUnit(Frac(5, 1), None, Some({2}))}
ArithTables == {{}, {[name |-> "REFCAT", pay |-> 7]}}

UnitLists(U) ==
    UNION {[1..n -> U] : n \in 1..MaxArithUnits}

InitArith ==
    /\ decl = <<>> /\ members = <<>>
    /\ file = <<>> /\ ad1 = <<>> /\ hdul = <<>> /\ ad2 = <<>>
    /\ pc = "arith" /\ raised = "none"
    /\ origin = <<>> /\ nops = 0
    /\ nd1 = <<>> /\ call = <<>>
    /\ view = <<>> /\ path = <<>>
    /\ \E ua \in UnitLists(UnitsA), ub \in UnitLists(UnitsB), tb \in ArithTables :
          heap = <<ArithData(ua, {}), ArithData(ub, tb)>>

ArithCalled(form, op, self, operand, r) ==
    /\ heap' = r.heap
    /\ raised' = r.err
    /\ call' = Append(call, [form |-> form, op |-> op, self |-> self,
                             operand |-> operand, result |-> r.obj])
    /\ UNCHANGED <<tagVars, viewVars, file, ad1, hdul, ad2, pc, opVars, nd1>>

\* ad = deepcopy(x)
Copy(x) ==
    /\ pc = "arith" /\ raised = "none" /\ Len(call) < MaxCalls
    /\ x \in DOMAIN heap \ {2}
    /\ LET c == deepcopy(heap, x)
       IN  ArithCalled("deepcopy", "none", x, x,
                       [heap |-> c.heap, err |-> "none", obj |-> c.obj])

\* result = op(x, b)
Binary(op, x) ==
    /\ pc = "arith" /\ raised = "none" /\ Len(call) < MaxCalls
    /\ x \in DOMAIN heap \ {2}
    /\ ArithCalled("copying", op, x, 2, __op__(op, heap, x, 2))

\* iop(x, b) on an object the test made
InPlace(op, x) ==
    /\ pc = "arith" /\ raised = "none" /\ Len(call) < MaxCalls
    /\ x \in DOMAIN heap \ {1, 2}
    /\ LET r == __iop__(op, heap, x, 2)
       IN  ArithCalled("inplace", op, x, 2,
                       [heap |-> r.heap, err |-> r.err, obj |-> x])

NextArith ==
    \/ \E x \in 1..(MaxCalls + 2) : Copy(x)
    \/ \E op \in Operators, x \in 1..(MaxCalls + 2) : Binary(op, x)
    \/ \E op \in Operators, x \in 1..(MaxCalls + 2) : InPlace(op, x)

SpecArith == InitArith /\ [][NextArith]_vars

(***************************************************************************)
(* fits.py: windowed_operation.  An array is a function from the cells of  *)
(* its shape (two axes, indices from 0) to values.  The heap holds the     *)
(* logger of astropy (its configured level conf and its level), the        *)
(* NDAstroData objects nd and the meta dictionaries they refer to.         *)
(***************************************************************************)
\* what a cell of np.empty holds until it is written: not a value of the
\* data
Uninit == 0 - 1

Cells(shp) == {<<i, j>> : i \in 0..(shp[1] - 1), j \in 0..(shp[2] - 1)}

Min(m, n) == IF m < n THEN m ELSE n

\* np.empty(shape), np.zeros(shape)
np_empty(shp) == [c \in Cells(shp) |-> Uninit]
np_zeros(shp) == [c \in Cells(shp) |-> 0]

\* fits._get_shape: [err, shape]
_get_shape(seq) ==
    IF Cardinality({seq[i].shape : i \in DOMAIN seq}) > 1
    THEN [err |-> "ValueError", shape |-> <<>>]
    ELSE [err |-> "none", shape |-> seq[1].shape]

\* a variant that leaves out the last chunk of every axis
ticks_short(axis, step) ==
    LET r == range(0, axis - step, step)
    IN  [k \in DOMAIN r |-> <<r[k], r[k] + step>>]

\* [(x, x + step) for x in range(0, axis, step)]
ticks(axis, step) ==
    LET r == range(0, axis, step)
    IN  [k \in DOMAIN r |-> <<r[k], r[k] + step>>]

\* fits._generate_boxes: [err, boxes], the boxes in the order of
\* itertools.product
_generate_boxes(shp, kernel) ==
    IF Len(shp) # Len(kernel)
    THEN [err |-> "AssertionError", boxes |-> <<>>]
    ELSE LET t1 == ticks(shp[1], kernel[1])
             t2 == ticks(shp[2], kernel[2])
         IN  [err |-> "none",
              boxes |-> [n \in 1..(Len(t1) * Len(t2)) |->
                           <<t1[((n - 1) \div Len(t2)) + 1],
                             t2[((n - 1) % Len(t2)) + 1]>>]]

\* the cells of an array of shape shp that the slices of coords select
Section(coords, shp) ==
    {c \in Cells(shp) :
        \A a \in 1..2 : coords[a][1] <= c[a] /\ c[a] < coords[a][2]}

\* array[section]: the selected cells, indexed from 0
Windowed(array, coords, shp) ==
    LET w == <<Min(coords[1][2], shp[1]) - coords[1][1],
               Min(coords[2][2], shp[2]) - coords[2][1]>>
    IN  [c \in Cells(w) |-> array[<<c[1] + coords[1][1], c[2] + coords[2][1]>>]]

\* element.window[section]: the data, the variance and the mask, clipped
window(nd, coords) ==
    [data |-> Windowed(nd.data, coords, nd.shape),
     variance |-> IF nd.variance = None THEN None
                  ELSE Some(Windowed(nd.variance[1], coords, nd.shape)),
     mask |-> IF nd.mask = None THEN None
              ELSE Some(Windowed(nd.mask[1], coords, nd.shape))]

\* array[section] = value
SetCells(array, coords, shp, value) ==
    [c \in DOMAIN array |->
        IF c \in Section(coords, shp)
        THEN value[<<c[1] - coords[1][1], c[2] - coords[2][1]>>]
        ELSE array[c]]

\* NDAstroData.set_section: [err, nd]
set_section(nd, coords, out) ==
    IF nd.variance # None /\ out.variance = None
    THEN [err |-> "AttributeError", nd |-> nd]
    ELSE IF nd.mask # None /\ out.mask = None
    THEN [err |-> "TypeError", nd |-> nd]
    ELSE [err |-> "none",
          nd |-> [nd EXCEPT
                    !.data = SetCells(@, coords, nd.shape, out.data),
                    !.variance = IF @ = None THEN None
                                 ELSE Some(SetCells(@[1], coords, nd.shape,
                                                    out.variance[1])),
                    !.mask = IF @ = None THEN None
                             ELSE Some(SetCells(@[1], coords, nd.shape,
                                                out.mask[1]))]]

\* the sum over the arrays of a list, cell by cell
RECURSIVE SumAt(_, _)
SumAt(arrays, c) ==
    IF arrays = <<>> THEN 0 ELSE Head(arrays)[c] + SumAt(Tail(arrays), c)

SumArrays(arrays) ==
    [c \in DOMAIN arrays[1] |-> SumAt(arrays, c)]

\* the reducers handed to windowed_operation, all of them cell by cell:
\*   "sum"           the sum of the data
\*   "stack"         the function of test_windowedOp: the sums of the data,
\*                   of the variances and of the masks; AttributeError when
\*                   an input has no variance
\*   "stack_objmask" the sum of the data, and the same array as an
\*                   additional attribute OBJMASK
\* Windows of different shapes cannot be put in one array: ValueError.
\* The result is [err, data, variance, mask, other].
Reducer(func, windows) ==
    LET data == SumArrays([i \in DOMAIN windows |-> windows[i].data])
    IN  IF \E i \in DOMAIN windows :
              DOMAIN windows[i].data # DOMAIN windows[1].data
        THEN [err |-> "ValueError", data |-> <<>>, variance |-> None,
              mask |-> None, other |-> {}]
        ELSE
        CASE func = "sum" ->
               [err |-> "none", data |-> data, variance |-> None,
                mask |-> None, other |-> {}]
          [] func = "stack" ->
               IF \E i \in DOMAIN windows :
                     windows[i].variance = None \/ windows[i].mask = None
               THEN [err |-> "AttributeError", data |-> data,
                     variance |-> None, mask |-> None, other |-> {}]
               ELSE [err |-> "none", data |-> data,
                     variance |-> Some(SumArrays([i \in DOMAIN windows |->
                                                    windows[i].variance[1]])),
                     mask |-> Some(SumArrays([i \in DOMAIN windows |->
                                                windows[i].mask[1]])),
                     other |-> {}]
          [] func = "stack_objmask" ->
               [err |-> "none", data |-> data, variance |-> None,
                mask |-> None, other |-> {[name |-> "OBJMASK", value |-> data]}]

\* fits._apply_func: the loop over the boxes from box k on.  st is [err, nd,
\* other]: the result so far and the additional attributes it holds, each
\* [name, coords, value] with coords = <<>> when the key is the name alone
RECURSIVE _apply_func(_, _, _, _, _)
_apply_func(func, seq, boxes, k, st) ==
    IF k > Len(boxes) \/ st.err # "none" THEN st
    ELSE LET coords == boxes[k]
             out == Reducer(func, [i \in DOMAIN seq |-> window(seq[i], coords)])
             set == set_section(st.nd, coords, out)
             more == {[name |-> o.name,
                       coords |-> IF Len(boxes) > 1 THEN coords ELSE <<>>,
                       value |-> o.value] : o \in out.other}
             keys == {<<o.name, o.coords>> : o \in more}
         IN  IF out.err # "none" THEN [st EXCEPT !.err = out.err]
             ELSE IF set.err # "none" THEN [st EXCEPT !.err = set.err]
             ELSE _apply_func(func, seq, boxes, k + 1,
                      [err |-> "none", nd |-> set.nd,
                       other |-> {o \in st.other :
                                    <<o.name, o.coords>> \notin keys} \cup more])

\* the end of windowed_operation: the chunks of every additional attribute
\* are put together in an array of the full shape, and the arrays are kept
\* under the names
Gathered(other, shp) ==
    LET whole(name) ==
            [c \in Cells(shp) |->
                IF \E o \in other : o.name = name /\ o.coords # <<>>
                                    /\ c \in Section(o.coords, shp)
                THEN LET o == CHOOSE o \in other :
                                 o.name = name /\ o.coords # <<>>
                                 /\ c \in Section(o.coords, shp)
                     IN  o.value[<<c[1] - o.coords[1][1], c[2] - o.coords[2][1]>>]
                ELSE Uninit]
    IN  {[name |-> o.name,
          value |-> IF o.coords = <<>> THEN o.value ELSE whole(o.name)] :
            o \in other}

\* fits.windowed_operation(func, sequence, kernel, shape, with_uncertainty=wu,
\* with_mask=wm) on the objects sequence of the heap hp: [heap, err]; the
\* result is the last object of the new heap
windowed_operation(hp, func, sequence, kernel, shp, wu, wm) ==
    LET seq == [i \in DOMAIN sequence |-> hp.nd[sequence[i]]]
        gs == IF shp = None THEN _get_shape(seq)
              ELSE [err |-> "none", shape |-> shp[1]]
        m == seq[1].meta
        result == [shape |-> gs.shape,
                   data |-> np_empty(gs.shape),
                   variance |-> IF wu THEN Some(np_zeros(gs.shape)) ELSE None,
                   mask |-> IF wm THEN Some(np_empty(gs.shape)) ELSE None,
                   meta |-> m]
        \* result.meta["other"] = OrderedDict()
        hp1 == [hp EXCEPT !.meta[m].other = {}]
        \* log_level = conf.log_level; log.setLevel(WARNING)
        log_level == hp.log.conf
        hp2 == [hp1 EXCEPT !.log.level = "WARNING"]
        gb == _generate_boxes(gs.shape, kernel)
        ap == _apply_func(func, seq, gb.boxes, 1,
                          [err |-> "none", nd |-> result, other |-> {}])
        \* finally: log.setLevel(log_level)
        hp3 == [hp2 EXCEPT !.log.level = log_level]
    IN  IF gs.err # "none" THEN [heap |-> hp, err |-> gs.err]
        ELSE IF gb.err # "none" THEN [heap |-> hp2, err |-> gb.err]
        ELSE IF ap.err # "none" THEN [heap |-> hp3, err |-> ap.err]
        ELSE [heap |-> [hp3 EXCEPT !.meta[m].other = Gathered(ap.other, gs.shape),
                                   !.nd = Append(@, ap.nd)],
              err |-> "none"]

(***************************************************************************)
(* SpecWindow: one call of windowed_operation on one or two NDAstroData    *)
(* objects, after the level of the logger was set, and a later change of   *)
(* the additional attributes of the result.                                *)
(***************************************************************************)
\* the number of NDAstroData objects before the call
MaxInputs == 2

WinShapes == {<<2, 2>>, <<2, 4>>}
Kernels == {<<1, 2>>, <<2, 2>>, <<2, 4>>, <<3, 3>>, <<2>>}
Funcs == {"sum", "stack", "stack_objmask"}
Levels == {"DEBUG", "INFO", "WARNING"}

\* the arrays of an input: the cells numbered from 1, variance 1 everywhere,
\* the last cell of the mask set (as in the fixture testnd)
Ramp(shp) == [c \in Cells(shp) |-> c[1] * shp[2] + c[2] + 1]
Ones(shp) == [c \in Cells(shp) |-> 1]
Flag(shp) == [c \in Cells(shp) |-> IF c = <<shp[1] - 1, shp[2] - 1>> THEN 1 ELSE 0]

\* an input of shape shp, with variance and mask or without, whose meta is
\* object m
Input(shp, full, m) ==
    [shape |-> shp, data |-> Ramp(shp),
     variance |-> IF full THEN Some(Ones(shp)) ELSE None,
     mask |-> IF full THEN Some(Flag(shp)) ELSE None,
     meta |-> m]

\* the meta of an input: its additional attributes, none or an OBJMASK
Metas == {[other |-> {}],
          [other |-> {[name |-> "OBJMASK", value |-> Ones(<<2, 2>>)]}]}

InitWindow ==
    /\ decl = <<>> /\ members = <<>>
    /\ file = <<>> /\ ad1 = <<>> /\ hdul = <<>> /\ ad2 = <<>>
    /\ pc = "window" /\ raised = "none"
    /\ origin = <<>> /\ nops = 0
    /\ nd1 = <<>> /\ call = <<>>
    /\ view = <<>> /\ path = <<>>
    /\ \E n \in 1..MaxInputs :
       \E shps \in [1..n -> WinShapes], full \in [1..n -> BOOLEAN],
          metas \in [1..n -> Metas] :
          heap = [log |-> [conf |-> "INFO", level |-> "INFO"],
                  nd |-> [i \in 1..n |-> Input(shps[i], full[i], i)],
                  meta |-> metas]

\* astropy.log.setLevel(level), before the call
SetLevel(level) ==
    /\ pc = "window" /\ call = <<>>
    /\ heap.log.level = heap.log.conf
    /\ level # heap.log.level
    /\ heap' = [heap EXCEPT !.log.level = level]
    /\ UNCHANGED <<tagVars, viewVars, file, ad1, hdul, ad2, pc, raised, opVars,
                   unitVars>>

\* result = windowed_operation(func, sequence, kernel, shape=shp,
\*                             with_uncertainty=wu, with_mask=wm)
WindowedOperation(func, sequence, kernel, shp, wu, wm) ==
    /\ pc = "window" /\ call = <<>>
    /\ \A i \in DOMAIN sequence : sequence[i] \in DOMAIN heap.nd
    /\ shp # None => shp[1] = heap.nd[sequence[1]].shape
    /\ LET r == windowed_operation(heap, func, sequence, kernel, shp, wu, wm)
       IN  /\ heap' = r.heap
           /\ raised' = r.err
           /\ call' = [func |-> func, sequence |-> sequence, kernel |-> kernel,
                       shape |-> shp, with_uncertainty |-> wu, with_mask |-> wm]
    /\ UNCHANGED <<tagVars, viewVars, file, ad1, hdul, ad2, pc, opVars, nd1>>

\* result.meta["other"][name] = value, after the call
SetResultOther(name) ==
    /\ pc = "window" /\ call # <<>> /\ raised = "none" /\ nops = 0
    /\ LET result == heap.nd[Len(heap.nd)]
       IN  heap' = [heap EXCEPT !.meta[result.meta].other =
                       {o \in @ : o.name # name}
                       \cup {[name |-> name, value |-> Ones(result.shape)]}]
    /\ nops' = 1
    /\ UNCHANGED <<tagVars, viewVars, file, ad1, hdul, ad2, pc, raised, origin,
                   unitVars>>

NextWindow ==
    \/ \E level \in Levels : SetLevel(level)
    \/ \E func \in Funcs, kernel \in Kernels,
          shp \in {None} \cup {Some(x) : x \in WinShapes}, wu, wm \in BOOLEAN,
          sequence \in {<<1>>, <<1, 1>>, <<1, 2>>} :
          WindowedOperation(func, sequence, kernel, shp, wu, wm)
    \/ SetResultOther("REFCAT")

SpecWindow == InitWindow /\ [][NextWindow]_vars

(***************************************************************************)
(* fits.py: FitsLazyLoadable, and nddata.py: NDAstroData._get_simple.  An  *)
(* image HDU of a file opened with do_not_scale_image_data is              *)
(*   [bitpix, bscale, bzero, EXTNAME, uint, raw]                           *)
(* with raw the stored numbers, a function from the cells 0..n-1.  An      *)
(* array in memory is [dtype, cells].                                      *)
(***************************************************************************)
\* astropy.io.fits.BITPIX2DTYPE
BITPIX2DTYPE(bitpix) ==
    CASE bitpix = 8 -> "uint8"
      [] bitpix = 16 -> "int16"
      [] bitpix = 32 -> "int32"
      [] bitpix = 0 - 32 -> "float32"

\* hdu._dtype_for_bitpix(): the unsigned type of the pseudo-unsigned
\* convention, a float type for scaled integers, "None" for floats.  The
\* BZERO = 2^31 of the 32-bit convention is beyond the integers of the model
\* and no HDU drawn has it.
_dtype_for_bitpix(hdu) ==
    IF hdu.uint /\ hdu.bscale = 1 /\ hdu.bitpix = 8 /\ hdu.bzero = 0 - 128
    THEN "int8"
    ELSE IF hdu.uint /\ hdu.bscale = 1 /\ hdu.bitpix = 16 /\ hdu.bzero = 32768
    THEN "uint16"
    ELSE IF hdu.bitpix > 16 THEN "float64"
    ELSE IF hdu.bitpix > 0 THEN "float32"
    ELSE "None"

\* a variant that needs the name and the 8 bits together
dtype_both(hdu) ==
    LET base == IF hdu.bscale = 1 /\ hdu.bzero = 0 THEN BITPIX2DTYPE(hdu.bitpix)
                ELSE _dtype_for_bitpix(hdu)
        float == IF base = "None" /\ hdu.bitpix < 0 THEN "float32" ELSE base
    IN  IF hdu.EXTNAME = "DQ" /\ hdu.uint /\ hdu.bscale = 1 /\ hdu.bitpix = 8
        THEN "uint16" ELSE float

\* FitsLazyLoadable.dtype
dtype(hdu) ==
    LET base == IF hdu.bscale = 1 /\ hdu.bzero = 0 THEN BITPIX2DTYPE(hdu.bitpix)
                ELSE _dtype_for_bitpix(hdu)
        float == IF base = "None" /\ hdu.bitpix < 0 THEN "float32" ELSE base
    IN  IF hdu.EXTNAME = "DQ" \/ (hdu.uint /\ hdu.bscale = 1 /\ hdu.bitpix = 8)
        THEN "uint16" ELSE float

\* the number v stored in an array of type dt: integers wrap around (every
\* integer of the model fits 32 bits)
astype(dt, v) ==
    LET wrap(bits) == v % (2 ^ bits)
        signed(bits) == IF wrap(bits) >= 2 ^ (bits - 1)
                        THEN wrap(bits) - 2 ^ bits ELSE wrap(bits)
    IN  CASE dt = "uint8" -> wrap(8)
          [] dt = "uint16" -> wrap(16)
          [] dt = "int8" -> signed(8)
          [] dt = "int16" -> signed(16)
          [] OTHER -> v

\* FitsLazyLoadable._scale on the numbers cells read from the file
_scale(hdu, cells) ==
    IF hdu.bscale = 1 /\ hdu.bzero = 0
    THEN [dtype |-> BITPIX2DTYPE(hdu.bitpix), cells |-> cells]
    ELSE [dtype |-> dtype(hdu),
          cells |-> [c \in DOMAIN cells |->
                        astype(dtype(hdu), hdu.bscale * cells[c] + hdu.bzero)]]

\* array[start:stop] of a function on 0..n-1
Sliced(cells, sect) ==
    [c \in 0..(sect[2] - sect[1] - 1) |-> cells[c + sect[1]]]

\* FitsLazyLoadable.__getitem__: self._scale(self._obj.section[arr_slice])
lazy_getitem(hdu, sect) ==
    _scale(hdu, Sliced(hdu.raw, sect))

\* FitsLazyLoadable.data: an array of self.dtype filled with the scaled data
lazy_data(hdu) ==
    LET scaled == _scale(hdu, hdu.raw)
    IN  [dtype |-> dtype(hdu),
         cells |-> [c \in DOMAIN scaled.cells |-> astype(dtype(hdu), scaled.cells[c])]]

\* NDAstroData._get_simple(target, section) for an image: [ret, source], the
\* array returned and what the attribute holds afterwards.  source is
\* [lazy |-> TRUE, hdu] or [lazy |-> FALSE, array]
_get_simple(source, sect) ==
    IF source.lazy
    THEN IF sect = None
         THEN LET ret == lazy_data(source.hdu)
              IN  [ret |-> ret, source |-> [lazy |-> FALSE, array |-> ret]]
         ELSE [ret |-> lazy_getitem(source.hdu, sect[1]), source |-> source]
    ELSE IF sect = None
         THEN [ret |-> source.array, source |-> source]
         ELSE [ret |-> [dtype |-> source.array.dtype,
                        cells |-> Sliced(source.array.cells, sect[1])],
               source |-> source]

\* The image HDUs of the files read: two cells each
MaxCells == 2

Bitpixes == {8, 16, 32, 0 - 32}

\* <<BSCALE, BZERO>>
Scalings == {<<1, 0>>, <<1, 32768>>, <<2, 1>>, <<1, 0 - 128>>}

RawValues(bitpix) ==
    CASE bitpix = 8 -> {0, 255}
      [] bitpix = 16 -> {0 - 32768, 7}
      [] bitpix = 32 -> {70000, 7}
      [] OTHER -> {2, 7}

LazyHdus ==
    { [bitpix |-> b, bscale |-> s[1], bzero |-> s[2], EXTNAME |-> n,
       uint |-> u, raw |-> r] :
        b \in Bitpixes, s \in Scalings, n \in {"SCI", "DQ"}, u \in BOOLEAN,
        r \in UNION { [0..(MaxCells - 1) -> RawValues(bb)] : bb \in Bitpixes } }

\* array[start:stop]
Sections == {<<0, 1>>, <<1, 2>>, <<0, 2>>}

InitLazy ==
    /\ decl = <<>>
    /\ members = <<>>
    /\ file = <<>>
    /\ ad1 = <<>>
    /\ hdul = <<>>
    /\ ad2 = <<>>
    /\ pc = "lazy"
    /\ raised = "none"
    /\ origin = <<>>
    /\ nops = 0
    /\ nd1 = <<>>
    /\ call = [op |-> "none"]
    /\ view = <<>>
    /\ path = <<>>
    /\ \E hdu \in LazyHdus :
          /\ \A c \in DOMAIN hdu.raw : hdu.raw[c] \in RawValues(hdu.bitpix)
          /\ heap = [hdu |-> hdu, source |-> [lazy |-> TRUE, hdu |-> hdu]]

\* source.dtype of the attribute still lazy
GetDtype ==
    /\ pc = "lazy"
    /\ heap.source.lazy
    /\ call' = [op |-> "dtype", ret |-> dtype(heap.source.hdu)]
    /\ UNCHANGED <<tagVars, objVars, viewVars, nd1, file, ad1, hdul, ad2, pc,
                   raised, origin, nops>>

\* nd.data or nd.mask: the whole array, kept in the attribute
Materialize ==
    /\ pc = "lazy"
    /\ LET r == _get_simple(heap.source, None)
       IN  /\ heap' = [heap EXCEPT !.source = r.source]
           /\ call' = [op |-> "all", ret |-> r.ret]
    /\ UNCHANGED <<tagVars, viewVars, nd1, file, ad1, hdul, ad2, pc,
                   raised, origin, nops>>

\* nd.window[start:stop].data or .mask
WindowRead(sect) ==
    /\ pc = "lazy"
    /\ LET r == _get_simple(heap.source, <<sect>>)
       IN  /\ heap' = [heap EXCEPT !.source = r.source]
           /\ call' = [op |-> "window", section |-> sect,
                       lazy |-> heap.source.lazy, ret |-> r.ret]
    /\ UNCHANGED <<tagVars, viewVars, nd1, file, ad1, hdul, ad2, pc,
                   raised, origin, nops>>

NextLazy ==
    \/ GetDtype
    \/ Materialize
    \/ \E sect \in Sections : WindowRead(sect)

SpecLazy == InitLazy /\ [][NextLazy]_vars

(***************************************************************************)
(* adfactory.py: AstroDataFactory.  The classes are numbers; bases[c] is   *)
(* the set of the direct bases of the class c, outcomes[c] what its        *)
(* matches_data does with the source.                                      *)
(***************************************************************************)
MaxClasses == 3
Classes == 1..MaxClasses

\* the classes of x.mro(), x itself included
RECURSIVE mro(_, _)
mro(bases, x) ==
    {x} \cup UNION {mro(bases, b) : b \in bases[x]}

\* a variant that keeps every candidate
get_astro_data_all(registry, bases, outcomes) ==
    LET candidates == {adclass \in registry : outcomes[adclass] = "True"}
        final_candidates == candidates
    IN  IF \E adclass \in registry : outcomes[adclass] = "KeyboardInterrupt"
        THEN [err |-> "KeyboardInterrupt", ret |-> 0]
        ELSE IF Cardinality(final_candidates) > 1
        THEN [err |-> "AstroDataError", ret |-> 0]
        ELSE IF final_candidates = {}
        THEN [err |-> "AstroDataError", ret |-> 0]
        ELSE [err |-> "none", ret |-> CHOOSE c \in final_candidates : TRUE]

\* AstroDataFactory.get_astro_data(source): ret is the class the source is
\* read with.  The registry is a set: the order of the loop shows in the
\* debug log only, a KeyboardInterrupt of any matcher leaves the loop.
get_astro_data(registry, bases, outcomes) ==
    LET candidates == {adclass \in registry : outcomes[adclass] = "True"}
        final_candidates ==
            {cnd \in candidates :
                ~ \E x \in candidates : x # cnd /\ cnd \in mro(bases, x)}
    IN  IF \E adclass \in registry : outcomes[adclass] = "KeyboardInterrupt"
        THEN [err |-> "KeyboardInterrupt", ret |-> 0]
        ELSE IF Cardinality(final_candidates) > 1
        THEN [err |-> "AstroDataError", ret |-> 0]
        ELSE IF final_candidates = {}
        THEN [err |-> "AstroDataError", ret |-> 0]
        ELSE [err |-> "none", ret |-> CHOOSE c \in final_candidates : TRUE]

\* what a matcher does: it returns, raises an Exception or is interrupted
MatchOutcomes == {"True", "False", "Exception", "KeyboardInterrupt"}

\* the class hierarchies: a class derives from classes defined before it
Hierarchies == {b \in [Classes -> SUBSET Classes] : \A c \in Classes : b[c] \subseteq 1..(c - 1)}

InitFactory ==
    /\ decl = <<>>
    /\ members = <<>>
    /\ file = <<>>
    /\ ad1 = <<>>
    /\ hdul = <<>>
    /\ ad2 = <<>>
    /\ pc = "factory"
    /\ raised = "none"
    /\ origin = <<>>
    /\ nops = 0
    /\ nd1 = <<>>
    /\ call = [op |-> "none"]
    /\ view = <<>>
    /\ path = <<>>
    /\ \E bases \in Hierarchies, outcomes \in [Classes -> MatchOutcomes] :
          heap = [bases |-> bases, outcomes |-> outcomes, _registry |-> {}]

\* factory.add_class(cls)
add_class(cls) ==
    /\ pc = "factory"
    /\ heap' = [heap EXCEPT !._registry = @ \cup {cls}]
    /\ call' = [op |-> "add_class"]
    /\ raised' = "none"
    /\ UNCHANGED <<tagVars, viewVars, nd1, file, ad1, hdul, ad2, pc, origin, nops>>

\* factory.remove_class(cls): set.remove raises KeyError for a class that
\* is not registered
remove_class(cls) ==
    /\ pc = "factory"
    /\ heap' = [heap EXCEPT !._registry = @ \ {cls}]
    /\ call' = [op |-> "remove_class"]
    /\ raised' = IF cls \in heap._registry THEN "none" ELSE "KeyError"
    /\ UNCHANGED <<tagVars, viewVars, nd1, file, ad1, hdul, ad2, pc, origin, nops>>

\* factory.get_astro_data(source)
GetAstroData ==
    /\ pc = "factory"
    /\ LET r == get_astro_data(heap._registry, heap.bases, heap.outcomes)
       IN  /\ call' = [op |-> "get_astro_data", ret |-> r.ret]
           /\ raised' = r.err
    /\ UNCHANGED <<tagVars, objVars, viewVars, nd1, file, ad1, hdul, ad2, pc, origin, nops>>

NextFactory ==
    \/ \E cls \in Classes : add_class(cls)
    \/ \E cls \in Classes : remove_class(cls)
    \/ GetAstroData

SpecFactory == InitFactory /\ [][NextFactory]_vars

(***************************************************************************)
(* core.py: the objects behind a dataset and its views.  The heap holds    *)
(*   dicts  the table dictionaries, each the set of its keys               *)
(*   hdrs   the headers, each the set of its keywords                      *)
(*   objs   the AstroData objects, each with the dictionary _tables and    *)
(*          the header _phu it refers to; objs[1] is the dataset, the      *)
(*          others are views of it                                         *)
(* The units of the objects are those of SpecView.                         *)
(***************************************************************************)
\* AstroData.__init__(nddata, tables=tables, phu=phu, indices, is_single):
\* self._tables = tables or {}; self._phu = phu or fits.Header().  tables and
\* phu are references into the heap; an empty dictionary and an empty header
\* are false
__init__(hp, tables, phu, is_single) ==
    LET newDict == hp.dicts[tables] = {}
        newHdr == hp.hdrs[phu] = {}
        dicts == IF newDict THEN Append(hp.dicts, {}) ELSE hp.dicts
        hdrs == IF newHdr THEN Append(hp.hdrs, {}) ELSE hp.hdrs
    IN  [dicts |-> dicts,
         hdrs |-> hdrs,
         objs |-> Append(hp.objs,
                         [_tables |-> IF newDict THEN Len(dicts) ELSE tables,
                          _phu |-> IF newHdr THEN Len(hdrs) ELSE phu,
                          is_single |-> is_single])]

\* the objects of a run: the dataset and up to two views
MaxObjs == 3
TableKeys == {"OBJCAT", "REFCAT"}
Keywords == {"AIRMASS", "OBJECT"}

InitShare ==
    /\ decl = <<>>
    /\ members = <<>>
    /\ file = <<>>
    /\ ad1 = <<>>
    /\ hdul = <<>>
    /\ ad2 = <<>>
    /\ pc = "share"
    /\ raised = "none"
    /\ origin = <<>>
    /\ nops = 0
    /\ nd1 = <<>>
    /\ call = [op |-> "none"]
    /\ view = <<>>
    /\ path = <<>>
    /\ \E tables \in {{}, {"REFCAT"}}, phu \in {{}, {"OBJECT"}} :
          heap = [dicts |-> <<tables>>, hdrs |-> <<phu>>,
                  objs |-> <<[_tables |-> 1, _phu |-> 1, is_single |-> FALSE]>>]

\* objs[o][idx], for an index (is_single) or a slice: __getitem__ hands
\* self._tables and self.phu to the new object
NewView(o, is_single) ==
    /\ pc = "share"
    /\ o \in DOMAIN heap.objs
    /\ Len(heap.objs) < MaxObjs
    /\ IF heap.objs[o].is_single
       THEN /\ raised' = "TypeError"
            /\ heap' = heap
       ELSE /\ raised' = "none"
            /\ heap' = __init__(heap, heap.objs[o]._tables, heap.objs[o]._phu, is_single)
    /\ call' = [op |-> "getitem", obj |-> o]
    /\ UNCHANGED <<tagVars, viewVars, nd1, file, ad1, hdul, ad2, pc, origin, nops>>

\* ad.NAME = table on the dataset: _append_table stores self._tables[NAME]
SetTable(name) ==
    /\ pc = "share"
    /\ heap' = [heap EXCEPT !.dicts[heap.objs[1]._tables] = @ \cup {name}]
    /\ call' = [op |-> "setattr", obj |-> 1]
    /\ raised' = "none"
    /\ UNCHANGED <<tagVars, viewVars, nd1, file, ad1, hdul, ad2, pc, origin, nops>>

\* del ad.NAME on the dataset
DelTable(name) ==
    /\ pc = "share"
    /\ IF name \in heap.dicts[heap.objs[1]._tables]
       THEN /\ heap' = [heap EXCEPT !.dicts[heap.objs[1]._tables] = @ \ {name}]
            /\ raised' = "none"
       ELSE /\ heap' = heap
            /\ raised' = "AttributeError"
    /\ call' = [op |-> "delattr", obj |-> 1]
    /\ UNCHANGED <<tagVars, viewVars, nd1, file, ad1, hdul, ad2, pc, origin, nops>>

\* objs[o] += operand, for a dataset operand of as many units with the
\* global tables rtab: _oper stores in self._tables those self has not
ShareIAdd(o, rtab) ==
    /\ pc = "share"
    /\ o \in DOMAIN heap.objs
    /\ heap' = [heap EXCEPT !.dicts[heap.objs[o]._tables] = @ \cup rtab]
    /\ call' = [op |-> "iadd", obj |-> o]
    /\ raised' = "none"
    /\ UNCHANGED <<tagVars, viewVars, nd1, file, ad1, hdul, ad2, pc, origin, nops>>

\* objs[o].phu[keyword] = value
SetKeyword(o, keyword) ==
    /\ pc = "share"
    /\ o \in DOMAIN heap.objs
    /\ heap' = [heap EXCEPT !.hdrs[heap.objs[o]._phu] = @ \cup {keyword}]
    /\ call' = [op |-> "phu", obj |-> o]
    /\ raised' = "none"
    /\ UNCHANGED <<tagVars, viewVars, nd1, file, ad1, hdul, ad2, pc, origin, nops>>

NextShare ==
    \/ \E o \in 1..MaxObjs, is_single \in BOOLEAN : NewView(o, is_single)
    \/ \E name \in TableKeys : SetTable(name)
    \/ \E name \in TableKeys : DelTable(name)
    \/ \E o \in 1..MaxObjs, rtab \in SUBSET TableKeys : ShareIAdd(o, rtab)
    \/ \E o \in 1..MaxObjs, keyword \in Keywords : SetKeyword(o, keyword)

SpecShare == InitShare /\ [][NextShare]_vars

(***************************************************************************)
(* Tag resolution: the claims.                                             *)
(***************************************************************************)
\* the orders in which the methods of S can be declared
Perms(S) ==
    {p \in [1..Cardinality(S) -> S] : \A i, j \in DOMAIN p : i # j => p[i] # p[j]}

\* C4: permuting the order in which the tag methods of a class are declared
\* never changes the tag set the tags property returns.
C4_OrderIndependence ==
    \A p \in Perms(DOMAIN members) : _process_tags(p, members) = tags

\* two methods declared against the order of their names, each blocking the
\* tag the other adds: the first one processed wins
C4_Witness ==
    /\ decl = <<2, 1>>
    /\ members[1].add = {"A"} /\ members[1].blocks = {"B"}
    /\ members[2].add = {"B"} /\ members[2].blocks = {"A"}
    /\ tags = {"A"}

\* The resolution order as one comparison: rule m comes before rule n when it
\* has fewer if_present tags, or as many and fewer blocked_by tags, or as many
\* of both and a larger first key K, or all three equal and the smaller name.
RefBefore(defs, K(_), m, n) ==
    LET im == Cardinality(defs[m].if_present)
        in == Cardinality(defs[n].if_present)
        bm == Cardinality(defs[m].blocked_by)
        bn == Cardinality(defs[n].blocked_by)
    IN  \/ im < in
        \/ im = in /\ bm < bn
        \/ im = in /\ bm = bn /\ K(defs[m]) > K(defs[n])
        \/ im = in /\ bm = bn /\ K(defs[m]) = K(defs[n]) /\ m < n

RefOrder(defs, K(_)) ==
    CHOOSE p \in Perms(DOMAIN defs) :
        \A i, j \in DOMAIN p : i < j => RefBefore(defs, K, p[i], p[j])

\* The accumulation over the first k rules of order p.
RECURSIVE RefState(_, _, _)
RefState(defs, p, k) ==
    IF k = 0 THEN [tags |-> {}, removals |-> {}, blocked |-> {}]
    ELSE LET st == RefState(defs, p, k - 1)
             x  == defs[p[k]]
             skip == \/ ~(x.if_present \subseteq st.tags)
                     \/ st.tags \cap x.blocked_by # {}
                     \/ x.add \cap st.blocked # {}
         IN  IF skip THEN st
             ELSE [tags |-> st.tags \cup (x.add \ (st.removals \cup x.remove)),
                   removals |-> st.removals \cup x.remove,
                   blocked |-> st.blocked \cup x.blocks]

RefTags(defs, K(_)) ==
    LET p == RefOrder(defs, K)
    IN  RefState(defs, p, Len(p)).tags

KeySum(x) == Cardinality(x.remove) + Cardinality(x.blocks)
KeyUnion(x) == Cardinality(x.remove \cup x.blocks)

\* C5 as stated: the tag set equals the reference resolution whose first sort
\* is descending by the size of the union of remove and blocks.
C5_AsStated ==
    tags = RefTags(members, KeyUnion)

\* C5 as amended: the tag set equals the reference resolution whose first
\* sort is descending by len(remove) + len(blocks), a tag that is in both
\* sets counting twice.
C5_ReferenceResolution ==
    tags = RefTags(members, KeySum)

\* a rule that removes and blocks the same tag is moved in front of a rule
\* that adds it, which is then skipped
C5_Witness ==
    /\ DOMAIN members = {1, 2}
    /\ members[1].add = {"A"} /\ members[1].blocks = {"A"}
    /\ members[2].remove = {"A"} /\ members[2].blocks = {"A"}
    /\ tags = {}

\* C18: when a rule that blocks tag T is applied, no other rule that adds T
\* is applied.
C18_Blocks ==
    LET rs == sorted_results(decl, members)
    IN  \A i, j \in DOMAIN rs, T \in TagNames :
            i # j /\ applied(rs, i) /\ T \in rs[i].blocks /\ T \in rs[j].add
                => ~applied(rs, j)

\* C19: a tag in the remove set of a rule that is applied is not in the
\* resolved tag set.
C19_Remove ==
    LET rs == sorted_results(decl, members)
    IN  \A i \in DOMAIN rs, T \in TagNames :
            applied(rs, i) /\ T \in rs[i].remove => T \notin tags

\* the class without the tag method n
Undeclare(order, n) == SelectSeq(order, LAMBDA m : m # n)
Without(defs, n) == [m \in DOMAIN defs \ {n} |-> defs[m]]

\* C20: a tag method whose body raises KeyError for a missing keyword does
\* not make the tags property raise, and the tag set is the one of the class
\* without that method.
C20_LookupFailure ==
    \A n \in DOMAIN members :
        members[n].outcome = "KeyError"
            => /\ raises(decl, members) = "none"
               /\ tags = _process_tags(Undeclare(decl, n), Without(members, n))

\* the first method raises KeyError, the second one adds a tag and blocks
\* another, and the tag set is what the second one adds
C20_Witness ==
    /\ decl = <<1, 2>>
    /\ members[1].outcome = "KeyError"
    /\ members[2].add = {"A"} /\ members[2].blocks = {"B"}
    /\ tags = {"A"}

(***************************************************************************)
(* Reading and writing: the claims.                                        *)
(***************************************************************************)
\* what two datasets are compared on: the units in their order, each with
\* its array, its mask, its variance and its ancillary entries, and the
\* global tables
UnitContent(nd) ==
    [data |-> nd.data, mask |-> nd.mask, uncertainty |-> nd.uncertainty,
     other |-> {[name |-> nd.other[i].name, kind |-> nd.other[i].kind,
                 pay |-> nd.other[i].pay] : i \in DOMAIN nd.other}]
Content(d) ==
    [nddata |-> [k \in DOMAIN d.nddata |-> UnitContent(d.nddata[k])],
     tables |-> {[name |-> t.name, pay |-> t.pay] : t \in d.tables}]

Prepared == _prepare_hdulist(file)
SciOf(P) == SelectSeq(Indices(P), LAMBDA j : j > 1 /\ P[j].name = DEFAULT_EXTENSION)
\* the last HDU of version v and name n, 0 when there is none
LastOf(P, v, n) == MaxOf({j \in DOMAIN P : P[j].ver = v /\ P[j].name = n})
PayOf(P, j) == IF j = 0 THEN NoData ELSE P[j].pay
\* the names a unit of version v takes as ancillary entries
AncillaryNames(P, v) ==
    {P[j].name : j \in {i \in DOMAIN P :
        /\ P[i].ver = v
        /\ isupper(P[i].name)
        /\ P[i].name \notin {"SCI", "DQ", "VAR", "WCS", "REFCAT", "MDF"}}}
\* the tables no unit takes
FreeTables(P) ==
    {j \in DOMAIN P :
        /\ P[j].kind = "table"
        /\ ~ \E i \in Range(SciOf(P)) :
               P[i].ver = P[j].ver /\ P[j].name \notin {"REFCAT", "MDF"}}

C3_UnversionedGrouped ==
    (/\ pc \in {"read", "failed"}
     /\ Len(file) = 3
     /\ {file[2].name, file[3].name} = {"SCI", "DQ"}
     /\ file[2].ver = NoVer /\ file[3].ver = NoVer)
    => /\ pc = "read"
       /\ Len(ad1.nddata) = 1
       /\ ad1.nddata[1].mask \in {file[2].pay, file[3].pay}

(***************************************************************************)
(* Operations between read and write: the claims.                          *)
(***************************************************************************)
Count(b) == IF b THEN 1 ELSE 0
RECURSIVE SumLen(_, _, _)
\* the HDUs of the first n units when a unit with a table (T) has one more
SumLen(d, T(_), n) ==
    IF n = 0 THEN 0
    ELSE SumLen(d, T, n - 1) + 1
         + Count(d.nddata[n].uncertainty # NoData) + Count(d.nddata[n].mask # NoData)
         + Count(T(d.nddata[n])) + Len(d.nddata[n].other)

NamesOf(seq) == [i \in DOMAIN seq |-> seq[i].name]
ByName(names) == SelectSeq(AlphaOrder, LAMBDA n : n \in Range(names))

\* hdul is: the primary HDU; for every unit in order its array, its variance
\* if present, its mask if present, a WCS table if T(unit), its ancillary
\* entries in the order O gives their names; the global tables by name
WrittenOrder(d, T(_), O(_)) ==
    /\ Len(hdul) = 1 + SumLen(d, T, Len(d.nddata)) + Cardinality(d.tables)
    /\ hdul[1].kind = "primary"
    /\ \A k \in DOMAIN d.nddata :
          LET nd == d.nddata[k]
              first == 2 + SumLen(d, T, k - 1)
              last == 1 + SumLen(d, T, k)
              roles == (IF nd.uncertainty # NoData THEN <<"VAR">> ELSE <<>>)
                       \o (IF nd.mask # NoData THEN <<"DQ">> ELSE <<>>)
                       \o (IF T(nd) THEN <<"WCS">> ELSE <<>>)
          IN  /\ hdul[first].name = "SCI" /\ hdul[first].pay = nd.data
              /\ NamesOf(SubSeq(hdul, first + 1, last)) = roles \o O(NamesOf(nd.other))
    /\ LET tail == SubSeq(hdul, 2 + SumLen(d, T, Len(d.nddata)), Len(hdul))
       IN  /\ \A i \in DOMAIN tail : tail[i].kind = "table"
           /\ NamesOf(tail) = ByName(NamesOf(tail))
           /\ Range(NamesOf(tail)) = TableNames(d.tables)

HasTransform(nd) == nd.wcs # "none"
HasInexactTransform(nd) == nd.wcs # "none" /\ gwcs_to_fits(nd.wcs) # "exact"
Inserted(names) == names

\* C6 as stated: write emits the primary record, then for each unit in order
\* its array, its uncertainty if present, its mask if present, its transform
\* table if it has a transform, its ancillary entries in name order, and
\* finally the global tables in name order.
C6_AsStated ==
    pc = "written" => WrittenOrder(ad1, HasTransform, ByName)

\* C6 as amended: the same with the transform table only for a transform
\* that the FITS keywords of the unit do not hold exactly, and the ancillary
\* entries in the order in which they were assigned.
C6_WriteOrder ==
    pc = "written" => WrittenOrder(ad1, HasInexactTransform, Inserted)

\* a unit with a variance, a mask and two ancillary entries assigned against
\* the order of their names has been written
C6_Witness ==
    /\ pc = "written"
    /\ \E k \in DOMAIN ad1.nddata :
          /\ ad1.nddata[k].uncertainty # NoData
          /\ ad1.nddata[k].mask # NoData
          /\ NamesOf(ad1.nddata[k].other) = <<"OBJMASK", "OBJCAT">>

SciVersions == SelectSeq(hdul, LAMBDA h : h.kind = "image" /\ h.name = "SCI")

\* C7: whatever was appended and deleted, write emits SCI records with
\* pairwise distinct versions.
C7_DistinctVersions ==
    pc = "written" =>
        \A i, j \in DOMAIN SciVersions :
            i # j => SciVersions[i].ver # SciVersions[j].ver

\* C8: a unit that was read keeps the EXTVER it was read with through every
\* operation, and write emits it with that EXTVER.
C8_VersionStable ==
    /\ Len(origin) = Len(ad1.nddata)
    /\ \A k \in DOMAIN origin :
          origin[k] # NoVer =>
              /\ ad1.nddata[k].header.EXTVER = origin[k]
              /\ pc = "written" => SciVersions[k].ver = origin[k]

\* the second unit of the file, left alone after a deletion and changed by
\* an arithmetic operation, next to an appended unit, has been written
C8_Witness ==
    /\ pc = "written"
    /\ origin = <<2, NoVer>>
    /\ ad1.nddata[1].data = Result(3)
    /\ SciVersions[1].ver = 2

\* C9: no name is at the same time a global table of the dataset and an
\* ancillary entry of one of its units.
C9_NoShadowing ==
    \A k \in DOMAIN ad1.nddata :
        Keys(ad1.nddata[k].other) \cap TableNames(ad1.tables) = {}

(***************************************************************************)
(* The planes of a unit: the claims.                                       *)
(***************************************************************************)
Present(value) == value.kind # "None"
SameShape(value, nd) == hasattr(value, "shape") /\ value.shape = nd.data.shape

\* C10 as stated: in every state reached by assignments to data, mask and
\* variance and by reset calls, with the check on or off and whether or not
\* the call fails, the mask and the variance, when present, have the shape of
\* the primary array.
C10_AsStated ==
    pc = "unit" =>
        /\ Present(nd1.mask) => SameShape(nd1.mask, nd1)
        /\ Present(nd1.uncertainty) => SameShape(nd1.uncertainty, nd1)

\* C10 as amended: when a reset call with the check on returns without an
\* error, the mask and the variance array that were passed to it are the
\* mask and the variance of the unit and have the shape of its primary array.
C10_CheckedReset ==
    (pc = "unit" /\ call.op = "reset" /\ call.check /\ raised = "none") =>
        /\ hasattr(call.mask, "shape") =>
              nd1.mask = call.mask /\ SameShape(nd1.mask, nd1)
        /\ hasattr(call.variance, "shape") =>
              nd1.uncertainty = call.variance /\ SameShape(nd1.uncertainty, nd1)

\* a checked reset that was given a mask and a variance array has returned
\* and has changed the shape of the primary array
C10_Witness ==
    /\ pc = "unit" /\ call.op = "reset" /\ call.check /\ raised = "none"
    /\ hasattr(call.mask, "shape") /\ hasattr(call.variance, "shape")
    /\ nd1.data.shape # SHAPE

(***************************************************************************)
(* Views: the claims.                                                      *)
(***************************************************************************)
\* the positions in the dataset of the units view shows, and how often view
\* shows the unit at position p
ViewPositions ==
    {PyPos(Len(ad1.nddata), view.indices[k]) : k \in DOMAIN view.indices} \ {0}
Multiplicity(p) ==
    Cardinality({k \in DOMAIN view.indices :
                    PyPos(Len(ad1.nddata), view.indices[k]) = p})

\* what an operation made through view has made of the unit nd it shows
Changed(nd, c, times) ==
    IF c.op = "iadd" THEN [nd EXCEPT !.data = @ + times * ArithPay]
    ELSE [nd EXCEPT ![c.plane] = NewPlane]

\* C11: an in-place operation made through a view (in-place arithmetic, an
\* assignment of data, mask or variance on a single-unit view) changes, in
\* the dataset, the units at the indices of the view, and leaves every other
\* unit as it was.
C11_ViewFrame ==
    [][(pc = "view" /\ view.sliced /\ nops' = nops + 1
        /\ call'.op \in {"iadd", "assign"}) =>
           /\ Len(ad1'.nddata) = Len(ad1.nddata)
           /\ \A k \in DOMAIN ad1.nddata :
                 IF k \in ViewPositions
                 THEN raised' = "none" =>
                         ad1'.nddata[k] = Changed(ad1.nddata[k], call', Multiplicity(k))
                 ELSE ad1'.nddata[k] = ad1.nddata[k]]_vars

\* in-place arithmetic through the view of the second of three units has
\* changed that unit alone
C11_Witness ==
    /\ pc = "view" /\ call.op = "iadd" /\ raised = "none"
    /\ view = Handle(<<1>>, TRUE)
    /\ Len(ad1.nddata) = 3
    /\ ad1.nddata[1].data = 2
    /\ ad1.nddata[2].data = Result(3)
    /\ ad1.nddata[3].data = 4

\* C12: append and del made on a view, single-unit or multi-unit, fail and
\* leave the dataset, and so every other view of it, unchanged.
C12_ViewsKeepStructure ==
    [][(pc = "view" /\ view.sliced /\ nops' = nops + 1
        /\ call'.op \in {"append", "delete"}) =>
           raised' # "none" /\ ad1' = ad1]_vars

\* del has been refused on a view that shows no unit
C12_Witness ==
    /\ pc = "view" /\ call.op = "delete" /\ raised = "TypeError"
    /\ view = Handle(<<>>, FALSE)

\* the slice that selects from n units what B selects from what A selects
Compose(A, B, n) ==
    LET a == slice_indices(A, n)
        b == slice_indices(B, Len(range(a.start, a.stop, a.step)))
        count == Len(range(b.start, b.stop, b.step))
        first == a.start + b.start * a.step
        step == a.step * b.step
        stop == first + (count - 1) * step + (IF step > 0 THEN 1 ELSE 0 - 1)
    IN  IF count = 0 THEN slice(Some(0), Some(0), None)
        ELSE slice(Some(first), IF stop < 0 THEN None ELSE Some(stop), Some(step))

\* C13: slicing a dataset by the range A and the result by the range B gives
\* the view that slicing the dataset once by the composition of A and B
\* gives: the same units in the same order.
C13_SliceComposition ==
    (pc = "view" /\ Len(path) = 2
     /\ path[1].kind = "slice" /\ path[2].kind = "slice") =>
        LET once == __getitem__(ad1, Owner, Compose(path[1], path[2], Len(ad1.nddata)))
        IN  once.err = "none" /\ view = once.handle

\* three units reversed and then every second of them
C13_Witness ==
    /\ pc = "view"
    /\ path = <<slice(None, None, Some(0 - 1)), slice(None, None, Some(2))>>
    /\ view = Handle(<<2, 0>>, FALSE)

\* C14: indexing an object of n units (not a single-unit view) with an
\* integer i >= n or i < -n, or with a tuple holding such an integer, raises
\* IndexError and returns no view.
C14_OutOfRangeRaises ==
    (pc = "view" /\ call.op = "getitem" /\ ~call.single
     /\ call.idx.kind \in {"int", "tuple"}) =>
        LET items == IF call.idx.kind = "int" THEN <<call.idx.i>> ELSE call.idx.items
        IN  (\E k \in DOMAIN items :
                items[k] >= call.nitems \/ items[k] < 0 - call.nitems)
            => raised = "IndexError"

(***************************************************************************)
(* The reader: more claims.                                                *)
(***************************************************************************)
\* two SCI HDUs of the file carry the same EXTVER
DuplicateSci ==
    \E i, j \in 2..Len(file) :
        /\ i < j
        /\ file[i].name = "SCI" /\ file[j].name = "SCI"
        /\ file[i].ver # NoVer /\ file[i].ver = file[j].ver

\* the first SCI HDU of the file with the EXTVER v
FirstSci(v) ==
    CHOOSE i \in 2..Len(file) :
        /\ file[i].name = "SCI" /\ file[i].ver = v
        /\ \A j \in 2..(i - 1) : ~(file[j].name = "SCI" /\ file[j].ver = v)

\* C15 as stated: a file in which several SCI records carry the same version
\* is read without an error, and the dataset has one unit for each version a
\* SCI record carries, made from the first SCI record of that version.
C15_AsStated ==
    (pc \in {"read", "failed"} /\ DuplicateSci) =>
        /\ pc = "read"
        /\ \A k, l \in DOMAIN ad1.nddata :
              k # l => ad1.nddata[k].header.EXTVER # ad1.nddata[l].header.EXTVER
        /\ \A k \in DOMAIN ad1.nddata :
              ad1.nddata[k].header.EXTVER \in {file[i].ver : i \in 2..Len(file)}
              => ad1.nddata[k].data = file[FirstSci(ad1.nddata[k].header.EXTVER)].pay

\* C15 as amended: such a file is read without an error, and every SCI
\* record is a unit of its own, in the order of the records, with the
\* version it carries: the units of one version stand next to each other.
C15_DuplicatesKept ==
    (pc \in {"read", "failed"} /\ DuplicateSci) =>
        /\ pc = "read"
        /\ LET sci == SciOf(Prepared)
           IN  /\ Len(ad1.nddata) = Len(sci)
               /\ \A k \in DOMAIN sci :
                     /\ ad1.nddata[k].data = Prepared[sci[k]].pay
                     /\ ad1.nddata[k].header.EXTVER = Prepared[sci[k]].ver

\* two SCI records of version 1 have been read as two units of version 1
C15_Witness ==
    /\ pc = "read"
    /\ file = <<PrimaryHDU(NoData), ImageHDU("SCI", 1, 2, FALSE),
                ImageHDU("SCI", 1, 3, FALSE)>>
    /\ Len(ad1.nddata) = 2
    /\ ad1.nddata[2].data = 3
    /\ ad1.nddata[2].header.EXTVER = 1

\* the HDU of the prepared list that was made from the i-th HDU of the file
\* (the payload of an HDU of the file is its position)
PreparedFrom(i) ==
    Prepared[CHOOSE j \in DOMAIN Prepared : j > 1 /\ Prepared[j].pay = file[i].pay]

IsMef == Len(file) > 1

\* C16 as stated: every record without a version is given a version >= 1
\* that no other record carries, the records being numbered in their
\* original order, and the version is written into the record.
C16_AsStated ==
    IsMef =>
        LET P == Prepared
            ver == [i \in 2..Len(file) |->
                       P[CHOOSE j \in DOMAIN P : j > 1 /\ P[j].pay = file[i].pay].ver]
        IN  \A i \in 2..Len(file) : file[i].ver = NoVer =>
                /\ ver[i] >= 1
                /\ \A j \in 2..Len(file) : j # i => ver[j] # ver[i]
                /\ \A j \in 2..(i - 1) : file[j].ver = NoVer => ver[j] < ver[i]

\* the images of the file that the first loop passes over (no version, or no
\* name), up to the i-th HDU
Passed(i) ==
    {j \in 2..i : file[j].kind = "image" /\ ~HasVerAndName(file[j])}

\* the highest version of the HDUs that have a version and a name
HighestNamed ==
    MaxOf({file[j].ver : j \in {k \in 2..Len(file) : HasVerAndName(file[k])}})

\* C16 as amended: every image without a version is given a version: the
\* highest version that a named record carries, plus the number of images
\* without a version or without a name up to and including it, in their
\* original order.  That is >= 1, above the version of every named record
\* and different for every image numbered this way; it is written into the
\* record, and it is the version of the unit when the image is a SCI image.
\* A table without a version is left without one, and every record that has
\* a version keeps it.
C16_ImagesNumbered ==
    IsMef =>
        LET P == Prepared
            ver == [i \in 2..Len(file) |->
                       P[CHOOSE j \in DOMAIN P : j > 1 /\ P[j].pay = file[i].pay].ver]
            passed == Passed(Len(file))
            highest == HighestNamed
        IN  /\ \A i \in 2..Len(file) :
                  ver[i] = IF file[i].ver = NoVer /\ file[i].kind = "image"
                           THEN highest + Cardinality({j \in passed : j <= i})
                           ELSE file[i].ver
            /\ \A i \in 2..Len(file) :
                  (file[i].ver = NoVer /\ file[i].kind = "image") =>
                      /\ ver[i] >= 1
                      /\ \A j \in 2..Len(file) :
                            (j # i /\ (HasVerAndName(file[j])
                                       \/ (j \in passed /\ file[j].ver = NoVer)))
                            => ver[j] # ver[i]
                      /\ (pc = "read" /\ file[i].name \in {"", "SCI"}) =>
                            \E k \in DOMAIN ad1.nddata :
                                /\ ad1.nddata[k].data = file[i].pay
                                /\ ad1.nddata[k].header.EXTVER = ver[i]

\* a file with a SCI image of version 2, an unnamed image of version 1 and
\* a DQ image without a version has been read: the DQ image has version 4
C16_Witness ==
    /\ pc = "read"
    /\ file = <<PrimaryHDU(NoData), ImageHDU("SCI", 2, 2, FALSE),
                ImageHDU("", 1, 3, FALSE), ImageHDU("DQ", NoVer, 4, FALSE)>>
    /\ PreparedFrom(4).ver = 4

(***************************************************************************)
(* Operations between read and write: more claims.                         *)
(***************************************************************************)
\* C17: the names of the mask and of the variance are never the name of a
\* global table or of an ancillary entry of a unit: every append or
\* assignment under one of them, of an array, an image HDU or a table HDU,
\* on the dataset or on a unit, fails and leaves the dataset as it was.
C17_ReservedNames ==
    /\ TableNames(ad1.tables) \cap Reserved = {}
    /\ \A k \in DOMAIN ad1.nddata : Keys(ad1.nddata[k].other) \cap Reserved = {}

\* no call operates in place on object x
Untouched(x) ==
    \A k \in DOMAIN call : call[k].form = "inplace" => call[k].self # x

(***************************************************************************)
(* Arithmetic: the claims.                                                 *)
(***************************************************************************)
\* the copying form and the in-place form on a copy of a agree: a op b has
\* the units a copy of a holds after op= b
FormsAgree ==
    \A i, j, k \in DOMAIN call :
        /\ call[i].form = "deepcopy" /\ call[i].self = 1
        /\ call[j].form = "inplace" /\ call[j].self = call[i].result
        /\ \A m \in DOMAIN call :
              (call[m].form = "inplace" /\ call[m].self = call[i].result) => m = j
        /\ call[k].form = "copying" /\ call[k].self = 1
        /\ Untouched(call[k].result)
        /\ call[k].op = call[j].op
        /\ raised = "none"
        => heap[call[k].result].nddata = heap[call[i].result].nddata

\* the copying form leaves a and b as they were
OperandsKept ==
    call' # call /\ call'[Len(call')].form = "copying"
        => heap'[1] = heap[1] /\ heap'[2] = heap[2]

\* the calls i and j are r = a + b and r - b, and nothing else is done to
\* the two results
IsRoundTrip(i, j) ==
    /\ i \in DOMAIN call /\ j \in DOMAIN call
    /\ Untouched(call[i].result) /\ Untouched(call[j].result)
    /\ call[i].form = "copying" /\ call[i].op = "add" /\ call[i].self = 1
    /\ call[j].form = "copying" /\ call[j].op = "subtract"
    /\ call[j].self = call[i].result
    /\ raised = "none"

\* C21 as stated, in its last part: (a + b) - b equals a, unit by unit, in
\* data, variance and mask.
C21_AsStated ==
    \A i, j \in DOMAIN call :
        IsRoundTrip(i, j) => heap[call[j].result].nddata = heap[1].nddata

\* C21 as amended: for each operator the copying form and the in-place form
\* on a copy agree, the copying form leaves a and b unchanged, and
\* (a + b) - b has the data of a in every unit; a unit of it equals the unit
\* of a when the unit of b has no variance and no mask.
C21_Arithmetic ==
    /\ [](FormsAgree)
    /\ [][OperandsKept]_vars
    /\ [](\A i, j \in DOMAIN call :
            IsRoundTrip(i, j) =>
                \A n \in DOMAIN heap[1].nddata :
                    /\ heap[call[j].result].nddata[n].data = heap[1].nddata[n].data
                    /\ (heap[2].nddata[n].variance = None
                        /\ heap[2].nddata[n].mask = None)
                           => heap[call[j].result].nddata[n] = heap[1].nddata[n])

\* (a + b) - b was computed for a unit with variance 1/2 and a b with
\* variance 1: the data is back at 3, the variance is 5/2
C21_Witness ==
    /\ IsRoundTrip(1, 2)
    /\ heap[1].nddata[1] = ArithUnit(Frac(3, 1), Some(Frac(1, 2)), Some({1}))
    /\ heap[2].nddata[1].variance = Some(Frac(1, 1))
    /\ heap[call[2].result].nddata[1].data = Frac(3, 1)
    /\ heap[call[2].result].nddata[1].variance = Some(Frac(5, 2))

(***************************************************************************)
(* windowed_operation: the claims.                                         *)
(***************************************************************************)
\* the step is a call of windowed_operation
IsWindowedCall == call = <<>> /\ call' # <<>>

\* the result of the call, once it returned
WinResult(hp) == hp.nd[Len(hp.nd)]

\* the sizes of kernel divide those of shp
Divides(kernel, shp) ==
    /\ Len(kernel) = Len(shp)
    /\ \A a \in DOMAIN shp : shp[a] % kernel[a] = 0

\* C22: for a kernel whose sizes divide the shape, every cell of the output
\* is in exactly one box, and the data, the variance and the mask of the
\* result are those of the same call with the whole shape as the kernel.
C22_ChunkingIdempotence ==
    [][IsWindowedCall /\ raised' = "none"
       /\ Divides(call'.kernel, WinResult(heap').shape)
       => LET c == call'
              shp == WinResult(heap').shape
              boxes == _generate_boxes(shp, c.kernel).boxes
              whole == windowed_operation(heap, c.func, c.sequence, shp, c.shape,
                                          c.with_uncertainty, c.with_mask)
          IN  /\ \A x \in Cells(shp) :
                    Cardinality({k \in DOMAIN boxes :
                                    x \in Section(boxes[k], shp)}) = 1
              /\ whole.err = "none"
              /\ WinResult(heap').data = WinResult(whole.heap).data
              /\ WinResult(heap').variance = WinResult(whole.heap).variance
              /\ WinResult(heap').mask = WinResult(whole.heap).mask]_vars

\* the function of the test stacked an input of shape (2, 4) with itself in
\* four chunks of shape (1, 2), with variance and mask
C22_Witness ==
    /\ call # <<>> /\ raised = "none"
    /\ call.func = "stack" /\ call.kernel = <<1, 2>> /\ call.sequence = <<1, 1>>
    /\ call.with_uncertainty /\ call.with_mask
    /\ WinResult(heap).shape = <<2, 4>>
    /\ WinResult(heap).data = [c \in Cells(<<2, 4>>) |-> 2 * Ramp(<<2, 4>>)[c]]
    /\ WinResult(heap).variance = Some([c \in Cells(<<2, 4>>) |-> 2])
    /\ WinResult(heap).mask[1][<<1, 3>>] = 2

\* object i of the heap is an input, not the result of the call
IsInput(i) == ~(call # <<>> /\ raised = "none" /\ i = Len(heap.nd))

\* C28: no step changes an input: its data, its mask, its variance and its
\* meta with the additional attributes are after the call, and after a later
\* change of the additional attributes of the result, what they were.
C28_InputsKept ==
    [][\A i \in DOMAIN heap.nd :
          IsInput(i) => /\ heap'.nd[i] = heap.nd[i]
                        /\ heap'.meta[heap.nd[i].meta] = heap.meta[heap.nd[i].meta]]_vars

\* C30: the level of the logger after a call of windowed_operation is its
\* level before the call, whether the call returns or raises.
C30_LevelRestored ==
    [][IsWindowedCall => heap'.log.level = heap.log.level]_vars

(***************************************************************************)
(* Lazy loading: the claims.                                               *)
(***************************************************************************)
\* C23, as stated: a windowed read returns the numbers found in that section
\* of the whole materialized, rescaled array, whether the array is still
\* lazy or not.
C23_WindowValues ==
    call.op = "window" =>
        call.ret.cells = Sliced(lazy_data(heap.hdu).cells, call.section)

\* the type that the bit depth, the scaling and the unsigned flag declare
Declared(hdu) ==
    IF hdu.bitpix < 0 THEN "float32"
    ELSE IF hdu.bscale = 1 /\ hdu.bzero = 0
    THEN (IF hdu.bitpix = 8 THEN "uint8"
          ELSE IF hdu.bitpix = 16 THEN "int16" ELSE "int32")
    ELSE IF hdu.uint /\ hdu.bscale = 1 /\ hdu.bitpix = 16 /\ hdu.bzero = 2 ^ 15
    THEN "uint16"
    ELSE IF hdu.bitpix = 32 THEN "float64" ELSE "float32"

\* C24, as stated: the type is uint16 exactly for an 8-bit payload named DQ,
\* and the declared type otherwise.
C24_AsStated ==
    call.op = "dtype" =>
        call.ret = IF heap.hdu.bitpix = 8 /\ heap.hdu.EXTNAME = "DQ"
                   THEN "uint16" ELSE Declared(heap.hdu)

\* C24, amended: the type is uint16 for every payload named DQ and for every
\* 8-bit payload of scale 1 read with the unsigned flag, and the declared
\* type otherwise.
C24_Dtype ==
    call.op = "dtype" =>
        call.ret = IF \/ heap.hdu.EXTNAME = "DQ"
                      \/ heap.hdu.bitpix = 8 /\ heap.hdu.uint /\ heap.hdu.bscale = 1
                   THEN "uint16" ELSE Declared(heap.hdu)

C24_Witness ==
    /\ pc = "lazy"
    /\ call.op = "dtype"
    /\ heap.hdu.EXTNAME = "DQ"
    /\ heap.hdu.bitpix = 16
    /\ heap.hdu.bscale = 1 /\ heap.hdu.bzero = 0
    /\ call.ret = "uint16"

(***************************************************************************)
(* The transforms that cannot be converted: the claim.                     *)
(***************************************************************************)
\* the HDUs of a written file that are not WCS HDUs, as <<name, ver, pay>>
NonWcs(hl) ==
    {<<hl[j].name, hl[j].ver, hl[j].pay>> : j \in {i \in DOMAIN hl : hl[i].name # "WCS"}}

\* C25: a transform that cannot be converted never aborts a read or a
\* write.  A read completes, and a unit whose WCS HDU cannot be parsed has
\* the transform of the FITS keywords or none; a write completes, the units
\* whose transform cannot be serialized have no WCS HDU in the file and
\* every other record is written as it is without those transforms.
C25_NeverAborts ==
    [][/\ (pc = "file" /\ pc' # "file") =>
             /\ pc' = "read"
             /\ \A k \in DOMAIN ad1'.nddata :
                   ad1'.nddata[k].wcs \in {"none", "fits", "approx", "fail"}
       /\ (pc = "read" /\ pc' # "read") =>
             /\ pc' = "written"
             /\ \A k \in DOMAIN ad1.nddata :
                   ad1.nddata[k].wcs = "unserial" =>
                      ~ \E j \in DOMAIN hdul' :
                           /\ hdul'[j].name = "WCS"
                           /\ hdul'[j].ver = ad1.nddata[k].header.EXTVER
             /\ NonWcs(hdul') =
                   NonWcs(ad_to_hdulist(
                      [ad1 EXCEPT !.nddata =
                          [k \in DOMAIN ad1.nddata |->
                              IF ad1.nddata[k].wcs = "unserial"
                              THEN [ad1.nddata[k] EXCEPT !.wcs = "none"]
                              ELSE ad1.nddata[k]]]).hdul)]_vars

(***************************************************************************)
(* The factory: the claim.                                                 *)
(***************************************************************************)
\* c is a proper ancestor of d
Ancestor(c, d) == c # d /\ c \in mro(heap.bases, d)

\* the registered variants whose matcher returns true
Matching == {c \in heap._registry : heap.outcomes[c] = "True"}

\* the matching variants that are no ancestor of another matching variant
Specific == {c \in Matching : ~ \E d \in Matching : Ancestor(c, d)}

\* the source is read with the only specific variant, and AstroDataError is
\* raised when there is none or more than one
Picked ==
    IF Cardinality(Specific) = 1
    THEN raised = "none" /\ call.ret \in Specific
    ELSE raised = "AstroDataError"

\* C26, as stated: get_astro_data picks the specific variant, a matcher that
\* raises counting as not matching, whatever it raises.
C26_AsStated ==
    call.op = "get_astro_data" => Picked

\* C26, amended: the same when no matcher of a registered variant raises
\* KeyboardInterrupt; when one does, get_astro_data raises it.
C26_Factory ==
    call.op = "get_astro_data" =>
        IF \E c \in heap._registry : heap.outcomes[c] = "KeyboardInterrupt"
        THEN raised = "KeyboardInterrupt"
        ELSE Picked

C26_Witness ==
    /\ pc = "factory"
    /\ call.op = "get_astro_data"
    /\ raised = "none"
    /\ \E c \in Matching : Ancestor(c, call.ret)
    /\ \E c \in heap._registry : heap.outcomes[c] = "Exception"

(***************************************************************************)
(* The records of the file in the dataset read: the claim.                 *)
(***************************************************************************)
\* the places of the dataset d that hold the record hdu of the file
PlacesOf(d, hdu) ==
    {<<k, "data">> : k \in {i \in DOMAIN d.nddata : d.nddata[i].data = hdu.pay}}
    \cup {<<k, "mask">> : k \in {i \in DOMAIN d.nddata : d.nddata[i].mask = hdu.pay}}
    \cup {<<k, "uncertainty">> :
             k \in {i \in DOMAIN d.nddata : d.nddata[i].uncertainty = hdu.pay}}
    \cup {<<k, "wcs">> :
             k \in {i \in DOMAIN d.nddata :
                      /\ hdu.name = "WCS" /\ hdu.kind = "table"
                      /\ d.nddata[i].header.EXTVER = hdu.ver
                      /\ d.nddata[i].wcs = hdu.gwcs}}
    \cup {<<k, "other">> :
             k \in {i \in DOMAIN d.nddata :
                      \E e \in Range(d.nddata[i].other) : e.pay = hdu.pay}}
    \cup {<<0, "tables">> : t \in {x \in d.tables : x.pay = hdu.pay}}

\* a file whose records all have an upper-case name, no two of them the
\* same name and version (but for science records without a version); a
\* table without a version, or named REFCAT or MDF, is the only one of its
\* name; every other record that is no science record either carries the
\* version of a science record or, for a mask or a variance, carries none
\* and comes with the only science record, which carries none
WellFormed(f) ==
    /\ \A j \in 2..Len(f) : f[j].name # "" /\ isupper(f[j].name)
    /\ \A i, j \in 2..Len(f) :
          (i # j /\ f[i].name = f[j].name /\ f[i].ver = f[j].ver)
          => (f[i].name = "SCI" /\ f[i].ver = NoVer)
    /\ \A j \in 2..Len(f) :
          IF f[j].kind = "table" /\ f[j].name # "WCS"
             /\ (f[j].ver = NoVer \/ f[j].name \in {"REFCAT", "MDF"})
          THEN \A i \in 2..Len(f) : f[i].name = f[j].name => i = j
          ELSE f[j].name # "SCI" =>
             \/ /\ f[j].ver # NoVer
                /\ \E i \in 2..Len(f) : f[i].name = "SCI" /\ f[i].ver = f[j].ver
             \/ /\ f[j].ver = NoVer
                /\ f[j].name \in {"DQ", "VAR"}
                /\ \A i \in 2..Len(f) : f[i].name = "SCI" => f[i].ver = NoVer
                /\ Cardinality({i \in 2..Len(f) : f[i].name = "SCI"}) = 1

\* C27: every record of a well-formed file but the primary one is in exactly
\* one place of the dataset read from it: the array, the mask, the variance,
\* the transform or an ancillary entry of one unit, or a global table.
C27_NoRecordLost ==
    (pc = "read" /\ WellFormed(file)) =>
        \A j \in 2..Len(file) : Cardinality(PlacesOf(ad1, file[j])) = 1

(***************************************************************************)
(* The state a view shares with its dataset: the claim.                    *)
(***************************************************************************)
\* C29: at any time the global tables and the primary header seen through a
\* view are those of the dataset, whatever was added after the view was
\* made and whether or not the table map or the header was empty then.
C29_ViewSharesState ==
    pc = "share" =>
        \A v \in DOMAIN heap.objs :
            /\ heap.dicts[heap.objs[v]._tables] = heap.dicts[heap.objs[1]._tables]
            /\ heap.hdrs[heap.objs[v]._phu] = heap.hdrs[heap.objs[1]._phu]

====
